---- MODULE Spec2Model ----
(***************************************************************************)
(* A model of the xubb-agents core: the Blackboard (core/blackboard.py),   *)
(* the agent lifecycle (core/agent.py) and the two-phase AgentEngine       *)
(* (core/engine.py).  One turn is process_turn; the agents of a phase run  *)
(* interleaved between the phase's snapshot and its merge.                 *)
(***************************************************************************)
EXTENDS Integers, Sequences, FiniteSets, TLC

(***************************************************************************)
(* Bounds of the model.                                                    *)
(***************************************************************************)
\* agents registered when the merge is examined
MaxAgents == 3
\* agents registered when selection and event dispatch are examined
MaxSubscribers == 2
\* agents registered when sessions are examined
MaxSessionAgents == 1
\* turns of a session
MaxTurns == 2
\* steps of the clock in a session
MaxNow == 2
\* keys of the facts the host adds
MaxKeys == 2
\* facts a Blackboard holds under the host's calls
MaxFacts == 3
\* agents of a merge of facts
MaxFactAgents == 2
\* agents of a session where cooldowns matter
MaxCooldownAgents == 1
\* agents of a phase whose completion order is examined
MaxOrderAgents == 2
\* items of a list of a Blackboard whose objects are examined
MaxItems == 2
\* objects of the heap
MaxCells == 14

(***************************************************************************)
(* Python values: a tagged record stands for an int, a str, a dict, a list *)
(* or None.                                                                *)
(***************************************************************************)
EmptyMap == [k \in {} |-> 0]

IntV(n) == [t |-> "int", n |-> n, s |-> "", d |-> EmptyMap, l |-> <<>>]
StrV(s) == [t |-> "str", n |-> 0, s |-> s, d |-> EmptyMap, l |-> <<>>]
DictV(m) == [t |-> "dict", n |-> 0, s |-> "", d |-> m, l |-> <<>>]
ListV(q) == [t |-> "list", n |-> 0, s |-> "", d |-> EmptyMap, l |-> q]
NoneV == [t |-> "none", n |-> 0, s |-> "", d |-> EmptyMap, l |-> <<>>]

\* bool(x) of a Python value
Truthy(x) ==
    CASE x.t = "none" -> FALSE
      [] x.t = "int" -> x.n # 0
      [] x.t = "str" -> x.s # ""
      [] x.t = "dict" -> DOMAIN x.d # {}
      [] x.t = "list" -> x.l # <<>>
      [] OTHER -> TRUE

\* dict.update(other): the keys of other overwrite, the rest is kept
DictUpdate(d, other) ==
    [k \in (DOMAIN d) \cup (DOMAIN other) |->
        IF k \in DOMAIN other THEN other[k] ELSE d[k]]

\* dict.get(key, default)
DictGet(d, k, default) == IF k \in DOMAIN d THEN d[k] ELSE default

(***************************************************************************)
(* Agent identities and the names used by the modelled session.            *)
(***************************************************************************)
AgentIds == <<"a1", "a2", "a3", "a4">>
NoAgent == "<none>"
UnknownAgent == "unknown"
NoKey == "<null>"
SessionId == "s1"
FactKeys == <<"k1", "k2", "k3">>

(***************************************************************************)
(* Blackboard (core/blackboard.py).                                        *)
(***************************************************************************)
NewBlackboard ==
    [events |-> <<>>, variables |-> EmptyMap, queues |-> EmptyMap,
     facts |-> <<>>, memory |-> EmptyMap]

emit_event(b, e) == [b EXCEPT !.events = Append(@, e)]

\* a clear_events that leaves the events in place
clear_events_keeping(b) == b

clear_events(b) == [b EXCEPT !.events = <<>>]

\* a set_var that assigns a new dict holding the one key
set_var_replacing(b, key, value) ==
    [b EXCEPT !.variables = [k \in {key} |-> value]]

\* a set_var that keeps the value of a key that is already set
set_var_if_absent(b, key, value) ==
    [b EXCEPT !.variables = DictUpdate([k \in {key} |-> value], @)]

set_var(b, key, value) ==
    [b EXCEPT !.variables = DictUpdate(@, [k \in {key} |-> value])]

get_var(b, key) == DictGet(b.variables, key, NoneV)

push_queue_items(b, name, items) ==
    [b EXCEPT !.queues =
        [q \in (DOMAIN @) \cup {name} |->
            IF q = name THEN DictGet(@, name, <<>>) \o items ELSE @[q]]]

\* index of the first stored fact that is the candidate of fact f, 0 if none
ExistingFact(facts, f) ==
    LET hits == {i \in 1..Len(facts) :
                    /\ facts[i].type = f.type
                    /\ (f.key = NoKey \/ facts[i].key = f.key)}
    IN IF hits = {} THEN 0 ELSE CHOOSE i \in hits : \A j \in hits : i <= j

RemoveAt(s, i) == SubSeq(s, 1, i - 1) \o SubSeq(s, i + 1, Len(s))

\* an add_fact that replaces only on a strictly higher confidence
add_fact_on_higher_confidence(b, f) ==
    LET i == ExistingFact(b.facts, f)
    IN IF i # 0
       THEN IF f.confidence > b.facts[i].confidence
            THEN [b EXCEPT !.facts = Append(RemoveAt(@, i), f)]
            ELSE b
       ELSE [b EXCEPT !.facts = Append(@, f)]

add_fact(b, f) ==
    LET i == ExistingFact(b.facts, f)
    IN IF i # 0
       THEN IF f.confidence >= b.facts[i].confidence
            THEN [b EXCEPT !.facts = Append(RemoveAt(@, i), f)]
            ELSE b
       ELSE [b EXCEPT !.facts = Append(@, f)]

\* pop_queue(queue_name): the first item, None for a queue that is empty or
\* absent, and the Blackboard without the item
pop_queue(b, name) ==
    IF name \in DOMAIN b.queues /\ b.queues[name] # <<>>
    THEN [item |-> Head(b.queues[name]),
          bb |-> [b EXCEPT !.queues[name] = Tail(@)]]
    ELSE [item |-> NoneV, bb |-> b]

\* an update_memory that assigns the updates to the namespace
update_memory_replacing(b, agent_id, updates) ==
    [b EXCEPT !.memory =
        [a \in (DOMAIN @) \cup {agent_id} |->
            IF a = agent_id THEN updates ELSE @[a]]]

update_memory(b, agent_id, updates) ==
    [b EXCEPT !.memory =
        [a \in (DOMAIN @) \cup {agent_id} |->
            IF a = agent_id
            THEN DictUpdate(DictGet(@, agent_id, EmptyMap), updates)
            ELSE @[a]]]

get_memory(b, agent_id) == DictGet(b.memory, agent_id, EmptyMap)

\* a copy that loses the variables
snapshot_without_variables(b) ==
    [events |-> b.events, variables |-> EmptyMap, queues |-> b.queues,
     facts |-> b.facts, memory |-> b.memory]

\* deepcopy of the five containers into a new Blackboard
snapshot(b) ==
    [events |-> b.events, variables |-> b.variables, queues |-> b.queues,
     facts |-> b.facts, memory |-> b.memory]

(***************************************************************************)
(* ConditionEvaluator (core/conditions.py).  A rule is                     *)
(* [source, name, op, value]; conditions are [mode, rules]; the absent     *)
(* trigger_conditions (None) is NoConditions.                              *)
(***************************************************************************)
NoConditions == [mode |-> "all", rules |-> <<>>]

\* a rule: source is the key that names the container ("var", "fact",
\* "queue", "memory", "meta"), name its value, agent the other agent of a
\* "memory" rule written "agent.key" ("" for the agent's own memory)
Rule(source, name, op, value) ==
    [source |-> source, name |-> name, agent |-> "", key |-> NoKey,
     op |-> op, value |-> value, result |-> 0]

\* get_fact: the first stored fact of the type, and of the key when one is given
get_fact(b, type, key) ==
    LET hits == {i \in 1..Len(b.facts) :
                    /\ b.facts[i].type = type
                    /\ (key = NoKey \/ b.facts[i].key = key)}
    IN IF hits = {} THEN 0 ELSE CHOOSE i \in hits : \A j \in hits : i <= j

\* (actual, key_exists) of a rule
GetValue(rule, b, meta, agent_id) ==
    CASE rule.source = "var" ->
            <<get_var(b, rule.name), rule.name \in DOMAIN b.variables>>
      [] rule.source = "fact" ->
            LET i == get_fact(b, rule.name, rule.key)
            IN <<IF i = 0 THEN NoneV ELSE b.facts[i].value, i # 0>>
      [] rule.source = "queue" ->
            <<ListV(DictGet(b.queues, rule.name, <<>>)),
              rule.name \in DOMAIN b.queues>>
      [] rule.source = "memory" ->
            LET mem == get_memory(b, IF rule.agent = "" THEN agent_id
                                     ELSE rule.agent)
            IN <<DictGet(mem, rule.name, NoneV), rule.name \in DOMAIN mem>>
      [] rule.source = "meta" ->
            <<DictGet(meta, rule.name, NoneV), rule.name \in DOMAIN meta>>
      [] OTHER -> <<NoneV, FALSE>>

\* x < y of two Python values; a TypeError is FALSE.  Of the orderable
\* values the rules of this model compare ints only.
Ordered(x, y, strict) ==
    /\ x.t = "int" /\ y.t = "int"
    /\ IF strict THEN x.n < y.n ELSE x.n <= y.n

\* "x in c": membership in a list, key membership in a dict; a TypeError is
\* FALSE.  The rules of this model make no substring tests.
Contains(c, x) ==
    CASE c.t = "list" -> \E i \in 1..Len(c.l) : c.l[i] = x
      [] c.t = "dict" -> x.t = "str" /\ x.s \in DOMAIN c.d
      [] OTHER -> FALSE

\* a % b of Python ints, b # 0: the result has the sign of b
PyMod(a, b) == IF b > 0 THEN a % b ELSE 0 - ((0 - a) % (0 - b))

\* a _compare that rejects an operator it does not know
Compare_rejecting_unknown(actual, op, expected, rule, key_exists) ==
    CASE op = "eq" -> actual = expected
      [] op = "neq" -> actual # expected
      [] op = "gt" -> actual.t # "none" /\ Ordered(expected, actual, TRUE)
      [] op = "gte" -> actual.t # "none" /\ Ordered(expected, actual, FALSE)
      [] op = "lt" -> actual.t # "none" /\ Ordered(actual, expected, TRUE)
      [] op = "lte" -> actual.t # "none" /\ Ordered(actual, expected, FALSE)
      [] op = "in" -> IF Truthy(expected) THEN Contains(expected, actual)
                      ELSE FALSE
      [] op = "not_in" -> IF Truthy(expected)
                          THEN expected.t \in {"list", "dict"}
                               /\ ~Contains(expected, actual)
                          ELSE TRUE
      [] op = "contains" -> actual.t # "none" /\ Contains(actual, expected)
      [] op = "exists" -> Truthy(actual)
      [] op = "present" -> key_exists
      [] op = "not_exists" -> ~Truthy(actual)
      [] op = "not_empty" -> actual.t # "none" /\ Truthy(actual)
      [] op = "empty" -> actual.t = "none" \/ ~Truthy(actual)
      [] op = "mod" ->
            /\ actual.t = "int" /\ expected.t = "int" /\ expected.n # 0
            /\ PyMod(actual.n, expected.n) = rule.result
      [] OTHER -> FALSE

\* _compare
Compare(actual, op, expected, rule, key_exists) ==
    CASE op = "eq" -> actual = expected
      [] op = "neq" -> actual # expected
      [] op = "gt" -> actual.t # "none" /\ Ordered(expected, actual, TRUE)
      [] op = "gte" -> actual.t # "none" /\ Ordered(expected, actual, FALSE)
      [] op = "lt" -> actual.t # "none" /\ Ordered(actual, expected, TRUE)
      [] op = "lte" -> actual.t # "none" /\ Ordered(actual, expected, FALSE)
      [] op = "in" -> IF Truthy(expected) THEN Contains(expected, actual)
                      ELSE FALSE
      [] op = "not_in" -> IF Truthy(expected)
                          THEN expected.t \in {"list", "dict"}
                               /\ ~Contains(expected, actual)
                          ELSE TRUE
      [] op = "contains" -> actual.t # "none" /\ Contains(actual, expected)
      [] op = "exists" -> Truthy(actual)
      [] op = "present" -> key_exists
      [] op = "not_exists" -> ~Truthy(actual)
      [] op = "not_empty" -> actual.t # "none" /\ Truthy(actual)
      [] op = "empty" -> actual.t = "none" \/ ~Truthy(actual)
      [] op = "mod" ->
            /\ actual.t = "int" /\ expected.t = "int" /\ expected.n # 0
            /\ PyMod(actual.n, expected.n) = rule.result
      [] OTHER -> TRUE

\* a rule that is not a map: the int 5 where a dict is expected
RuleNotAMap == [not_a_map |-> IntV(5)]

\* _evaluate_rule: whatever _get_value or _compare raises is FALSE; a rule
\* that is not a map makes _get_value raise
EvaluateRule(rule, b, meta, agent_id) ==
    IF "source" \notin DOMAIN rule THEN FALSE
    ELSE LET av == GetValue(rule, b, meta, agent_id)
         IN Compare(av[1], rule.op, rule.value, rule, av[2])

Evaluate(conditions, b, meta, agent_id) ==
    IF conditions.rules = <<>> THEN TRUE
    ELSE IF conditions.mode = "all"
         THEN \A i \in 1..Len(conditions.rules) :
                 EvaluateRule(conditions.rules[i], b, meta, agent_id)
    ELSE IF conditions.mode = "any"
         THEN \E i \in 1..Len(conditions.rules) :
                 EvaluateRule(conditions.rules[i], b, meta, agent_id)
    ELSE TRUE

\* conditions whose "rules" is the int 5, and conditions that are a list of
\* rules where a dict is expected
RulesNotAList == [mode |-> "all", rules_value |-> IntV(5)]
ConditionsNotADict == [list |-> <<Rule("var", "v", "exists", NoneV)>>]

\* the operators _compare knows
KnownOps ==
    {"eq", "neq", "gt", "gte", "lt", "lte", "in", "not_in", "contains",
     "exists", "present", "not_exists", "not_empty", "empty", "mod"}

\* rules over every source and over no source, every known operator and an
\* unknown one, and expected values of every type
RuleInputs ==
    {Rule(src[1], src[2], op, value) :
        src \in {<<"var", "v">>, <<"fact", "t">>, <<"queue", "q">>,
                 <<"memory", "m">>, <<"meta", "turn_count">>, <<"", "">>},
        op \in KnownOps \cup {"bogus"},
        value \in {NoneV, IntV(0), IntV(3), StrV("x"), ListV(<<IntV(3)>>)}}

\* condition expressions: none, one rule under each mode, a rule that is
\* not a map, a rule of unknown operator followed by a rule on variable v,
\* "rules" that is not a list, conditions that are not a dict
ConditionInputs ==
    {NoConditions, RulesNotAList, ConditionsNotADict}
    \cup {[mode |-> mode, rules |-> <<rule>>] :
            mode \in {"all", "any"}, rule \in RuleInputs \cup {RuleNotAMap}}
    \cup {[mode |-> "all", rules |-> <<rule, other>>] :
            rule \in {r \in RuleInputs : r.op \notin KnownOps /\ r.value = IntV(3)},
            other \in {r \in RuleInputs : r.source = "var"}}

\* what a call of evaluate does: "true", "false", or "raises" when
\* conditions.get or the iteration over the rules raises, which happens
\* outside the try of _evaluate_rule
EvaluateOutcome(conditions, b, meta, agent_id) ==
    IF "rules" \notin DOMAIN conditions THEN "raises"
    ELSE IF Evaluate(conditions, b, meta, agent_id) THEN "true"
    ELSE "false"

(***************************************************************************)
(* AgentResponse (core/models.py) and the responses the modelled agents    *)
(* return.                                                                 *)
(***************************************************************************)
EmptyResponse ==
    [insights |-> <<>>, state_updates |-> EmptyMap, data |-> EmptyMap,
     events |-> <<>>, variable_updates |-> EmptyMap, queue_pushes |-> EmptyMap,
     facts |-> <<>>, memory_updates |-> EmptyMap]

\* BaseAgent.create_insight: the insight carries the agent's own id
create_insight(id, type) == [agent_id |-> id, type |-> type]

\* an error response that still carries a variable write and an event
ErrorResponse_with_updates(id) ==
    [EmptyResponse EXCEPT
        !.insights = <<create_insight(id, "error")>>,
        !.variable_updates = [k \in {"v"} |-> StrV(id)],
        !.events = <<[name |-> "e1", source_agent |-> id]>>]

\* the response BaseAgent.process returns when evaluate raised
ErrorResponse(id) ==
    [EmptyResponse EXCEPT !.insights = <<create_insight(id, "error")>>]

(***************************************************************************)
(* AgentEngine._merge_responses (core/engine.py).  agents is the registry  *)
(* (a sequence of configs), agent_index the registration index by id.      *)
(***************************************************************************)
\* position in the registry of the first agent with this id, 0 if none
FindAgent(agents, id) ==
    LET hits == {i \in 1..Len(agents) : agents[i].id = id}
    IN IF hits = {} THEN 0 ELSE CHOOSE i \in hits : \A j \in hits : i <= j

\* the id the merge attributes a response to: its first insight's agent_id
ResponseAgentId(resp) ==
    IF resp.insights # <<>> THEN resp.insights[1].agent_id ELSE NoAgent

\* the tuple (priority, registration index, agent id or "unknown", response)
UpdateEntry(agents, agent_index, resp) ==
    LET agent_id == ResponseAgentId(resp)
        pos == FindAgent(agents, agent_id)
    IN [priority |-> IF pos = 0 THEN 0 ELSE agents[pos].priority,
        index |-> IF pos = 0 THEN 0 ELSE DictGet(agent_index, agent_id, 0),
        agent_id |-> IF agent_id = NoAgent THEN UnknownAgent ELSE agent_id,
        resp |-> resp]

\* sort key (priority, index): x strictly before y
KeyLess(x, y) ==
    \/ x.priority < y.priority
    \/ x.priority = y.priority /\ x.index < y.index

RECURSIVE InsertSorted(_, _)
InsertSorted(x, sorted) ==
    IF sorted = <<>> THEN <<x>>
    ELSE IF KeyLess(x, Head(sorted)) THEN <<x>> \o sorted
    ELSE <<Head(sorted)>> \o InsertSorted(x, Tail(sorted))

\* list.sort(key=...): ascending and stable
RECURSIVE SortUpdates(_)
SortUpdates(updates) ==
    IF updates = <<>> THEN <<>>
    ELSE InsertSorted(updates[Len(updates)],
                      SortUpdates(SubSeq(updates, 1, Len(updates) - 1)))

\* keys of the legacy state_updates that name an agent's memory
LegacyMemoryKeys ==
    [k \in {"memory_a1", "memory_a2", "memory_a3", "memory_a4"} |->
        CASE k = "memory_a1" -> "a1" [] k = "memory_a2" -> "a2"
          [] k = "memory_a3" -> "a3" [] OTHER -> "a4"]

\* a merge of facts that appends them without add_fact
AddFacts_by_append(b, facts) == [b EXCEPT !.facts = @ \o facts]

RECURSIVE AddFacts(_, _)
AddFacts(b, facts) ==
    IF facts = <<>> THEN b ELSE AddFacts(add_fact(b, Head(facts)), Tail(facts))

MergeData(data, other) ==
    [k \in (DOMAIN data) \cup (DOMAIN other) |->
        IF k \notin DOMAIN other THEN data[k]
        ELSE IF k \notin DOMAIN data THEN other[k]
        ELSE IF data[k].t = "list" /\ other[k].t = "list"
             THEN ListV(data[k].l \o other[k].l)
        ELSE other[k]]

PushQueues(b, pushes) ==
    [b EXCEPT !.queues =
        [q \in (DOMAIN @) \cup (DOMAIN pushes) |->
            DictGet(@, q, <<>>) \o DictGet(pushes, q, <<>>)]]

\* the v1 state_updates of one response, applied when variable_updates is empty
ApplyStateUpdates(st, resp) ==
    IF resp.state_updates # EmptyMap /\ resp.variable_updates = EmptyMap
    THEN LET su == resp.state_updates
             memKeys == {k \in DOMAIN su : k \in DOMAIN LegacyMemoryKeys}
             varKeys == (DOMAIN su) \ memKeys
             vars == [k \in varKeys |-> su[k]]
             mem == [a \in {LegacyMemoryKeys[k] :
                               k \in {m \in memKeys : su[m].t = "dict"}} |->
                        su[CHOOSE k \in memKeys : LegacyMemoryKeys[k] = a].d]
         IN [bb |-> [st.bb EXCEPT
                        !.variables = DictUpdate(@, vars),
                        !.memory = [a \in (DOMAIN @) \cup (DOMAIN mem) |->
                                       DictUpdate(DictGet(@, a, EmptyMap),
                                                  DictGet(mem, a, EmptyMap))]],
             final |-> [st.final EXCEPT
                        !.variable_updates = DictUpdate(@, vars)]]
    ELSE st

\* a merge whose aggregate keeps the first value written to a variable
ApplyUpdate_reporting_first_write(st, u) ==
    LET resp == u.resp
        b1 == [st.bb EXCEPT !.variables = DictUpdate(@, resp.variable_updates)]
        b2 == PushQueues(b1, resp.queue_pushes)
        b3 == AddFacts(b2, resp.facts)
        b4 == IF resp.memory_updates # EmptyMap
              THEN update_memory(b3, u.agent_id, resp.memory_updates)
              ELSE b3
        f1 == [st.final EXCEPT
                 !.insights = @ \o resp.insights,
                 !.data = MergeData(@, resp.data),
                 !.variable_updates = DictUpdate(resp.variable_updates, @),
                 !.queue_pushes =
                     [q \in (DOMAIN @) \cup (DOMAIN resp.queue_pushes) |->
                         DictGet(@, q, <<>>) \o DictGet(resp.queue_pushes, q, <<>>)],
                 !.facts = @ \o resp.facts,
                 !.memory_updates = DictUpdate(@, resp.memory_updates)]
    IN ApplyStateUpdates([bb |-> b4, final |-> f1], resp)

\* the body of the "for priority, index, agent_id, resp in updates" loop
ApplyUpdate(st, u) ==
    LET resp == u.resp
        b1 == [st.bb EXCEPT !.variables = DictUpdate(@, resp.variable_updates)]
        b2 == PushQueues(b1, resp.queue_pushes)
        b3 == AddFacts(b2, resp.facts)
        b4 == IF resp.memory_updates # EmptyMap
              THEN update_memory(b3, u.agent_id, resp.memory_updates)
              ELSE b3
        f1 == [st.final EXCEPT
                 !.insights = @ \o resp.insights,
                 !.data = MergeData(@, resp.data),
                 !.variable_updates = DictUpdate(@, resp.variable_updates),
                 !.queue_pushes =
                     [q \in (DOMAIN @) \cup (DOMAIN resp.queue_pushes) |->
                         DictGet(@, q, <<>>) \o DictGet(resp.queue_pushes, q, <<>>)],
                 !.facts = @ \o resp.facts,
                 !.memory_updates = DictUpdate(@, resp.memory_updates)]
    IN ApplyStateUpdates([bb |-> b4, final |-> f1], resp)

RECURSIVE ApplyUpdates(_, _)
ApplyUpdates(st, updates) ==
    IF updates = <<>> THEN st
    ELSE ApplyUpdates(ApplyUpdate(st, Head(updates)), Tail(updates))

\* _merge_responses(responses, blackboard, final_response)
MergeResponses(agents, agent_index, responses, b, final) ==
    LET updates == [i \in 1..Len(responses) |->
                       UpdateEntry(agents, agent_index, responses[i])]
    IN ApplyUpdates([bb |-> b, final |-> final], SortUpdates(updates))

(***************************************************************************)
(* Agent configuration (AgentConfig, core/agent.py) and the behaviours of  *)
(* the modelled agents.                                                    *)
(***************************************************************************)
DefaultCooldown == 10
max_phases == 2
TickSeconds == 5
\* time.time() when the session starts: far beyond any cooldown
Epoch == 100

TriggerTypes ==
    {"turn_based", "keyword", "silence", "interval", "event", "force"}
EventNames == {"e1", "e2"}

\* trigger_conditions of the modelled agents: none, or "variable v is set"
VarSetCondition ==
    [mode |-> "all", rules |-> <<Rule("var", "v", "exists", NoneV)>>]

AgentConfig(id, priority, trigger_types, subscribed_events, trigger_conditions, cooldown) ==
    [id |-> id, priority |-> priority, trigger_types |-> trigger_types,
     subscribed_events |-> subscribed_events,
     trigger_conditions |-> trigger_conditions, cooldown |-> cooldown]

\* what an evaluate of agent id returns: insights or not, a write to every
\* container or none, an event or none
ShapeResponse(id, ins, wr, ev) ==
    [EmptyResponse EXCEPT
        !.insights = IF ins THEN <<create_insight(id, "suggestion")>> ELSE <<>>,
        !.variable_updates = IF wr THEN [k \in {"v"} |-> StrV(id)] ELSE EmptyMap,
        !.queue_pushes = IF wr THEN [k \in {"q"} |-> <<StrV(id)>>] ELSE EmptyMap,
        !.facts = IF wr
                  THEN <<[type |-> "t", key |-> NoKey, value |-> StrV(id),
                          confidence |-> 10, source_agent |-> id]>>
                  ELSE <<>>,
        !.memory_updates = IF wr THEN [k \in {"m"} |-> StrV(id)] ELSE EmptyMap,
        !.events = IF ev = "" THEN <<>>
                   ELSE <<[name |-> ev, source_agent |-> id]>>]

\* what an evaluate of agent id returns when it emits one fact of type "t":
\* an insight of its own and the fact, with or without key
FactResponse(id, key, confidence) ==
    [EmptyResponse EXCEPT
        !.insights = <<create_insight(id, "suggestion")>>,
        !.facts = <<[type |-> "t", key |-> key, value |-> StrV(id),
                     confidence |-> confidence, source_agent |-> id]>>]

\* what an evaluate returns when it writes the sys.* variables itself
SysResponse ==
    [EmptyResponse EXCEPT
        !.variable_updates = [k \in {"sys.turn_count", "sys.session_id",
                                     "sys.trigger_type"} |-> StrV("bad")]]

\* the state_updates of the responses of v1 agents: a plain key, the memory
\* key of the first agent with a dict and with a value that is no dict
LegacyStateUpdates ==
    {[k \in {"v"} |-> StrV("x")],
     [k \in {"memory_a1"} |-> DictV([m \in {"m"} |-> IntV(3)])],
     [k \in {"memory_a1"} |-> StrV("x")],
     [k \in {"v", "memory_a1"} |->
         IF k = "v" THEN IntV(3) ELSE DictV([m \in {"n"} |-> StrV("x")])]}

\* what an evaluate of a v1 agent returns: state_updates, with or without
\* variable_updates beside them
LegacyResponses ==
    {[EmptyResponse EXCEPT !.state_updates = su, !.variable_updates = vu] :
        su \in LegacyStateUpdates,
        vu \in {EmptyMap, [k \in {"w"} |-> IntV(3)]}}

(***************************************************************************)
(* The state.                                                              *)
(***************************************************************************)
VARIABLES
    scope,            \* the scenario: which configurations and inputs occur
    agents,           \* AgentEngine.agents: the registered configs, in order
    agent_index,      \* AgentEngine._agent_index
    last_run_time,    \* BaseAgent.last_run_time by agent id
    now,              \* time.time()
    bb,               \* context.blackboard, the live Blackboard
    shared_state,     \* context.shared_state
    pc,               \* where process_turn is: "idle", "phase", "final",
                      \* "raised" when it ended by propagating an exception
    phase,            \* context.phase
    trigger_type,     \* context.trigger_type
    allowed,          \* allowed_agent_ids: [none, ids]
    turn_count,       \* context.turn_count
    selected,         \* the agents of the running phase, in registry order
    phase_snapshot,   \* phase_context.blackboard
    status,           \* each task of the phase: "idle", "pending", "running", "done"
    results,          \* what each task returned
    start_time,       \* "now" of BaseAgent.process
    final_response,   \* the aggregate response being built
    all_events,       \* all_events of process_turn
    last_response,    \* what the last process_turn returned
    evaluated,        \* (phase, id) of every evaluate invoked in this turn
    observed,         \* the Blackboard each evaluate read in this turn
    hist,             \* the merges of this turn: what went in and what came out
    turn_bb,          \* the Blackboard as it was when process_turn was called
    runs,             \* the last two evaluates of each agent in the session:
                      \* when each was invoked and how it ended
    evaluation,       \* the host's last call of ConditionEvaluator.evaluate on
                      \* the Blackboard as it is: its conditions and outcome
    completed,        \* the tasks of the running phase in the order they
                      \* completed, where the scenario examines that order
    on_agent_error,   \* how often each observer received on_agent_error for
                      \* each agent in this turn
    heap,             \* the objects of a Blackboard and of its snapshot,
                      \* where the scenario examines their identity
    received,         \* the calls each observer received in this turn: those
                      \* about the turn and its phases, and those about each
                      \* agent, each in order
    scheduled         \* the on_agent_skipped calls given to
                      \* asyncio.create_task that the event loop has not run

vars == <<scope, agents, agent_index, last_run_time, now, bb, shared_state, pc,
          phase, trigger_type, allowed, turn_count, selected, phase_snapshot,
          status, results, start_time, final_response, all_events,
          last_response, evaluated, observed, hist, turn_bb, runs,
          evaluation, completed, on_agent_error, heap, received,
          scheduled>>

Ids == {AgentIds[i] : i \in 1..Len(AgentIds)}
RegisteredIds == {agents[i].id : i \in 1..Len(agents)}
ConfigOf(id) == agents[FindAgent(agents, id)]

NoEvaluation == [conditions |-> NoConditions, outcome |-> "none"]

\* self.callbacks: the registered observers
Observers == {"o1", "o2"}
NoErrors == [o \in Observers |-> [id \in Ids |-> 0]]
NoResult == [kind |-> "none", resp |-> EmptyResponse]
AllowAll == [none |-> TRUE, ids |-> {}]
AllowOnly(S) == [none |-> FALSE, ids |-> S]

(***************************************************************************)
(* AgentEngine: eligibility (core/engine.py).                              *)
(***************************************************************************)
Meta(tc, trig, ph) ==
    [k \in {"turn_count", "trigger_type", "phase", "session_id"} |->
        CASE k = "turn_count" -> IntV(tc)
          [] k = "trigger_type" -> StrV(trig)
          [] k = "phase" -> IntV(ph)
          [] OTHER -> StrV(SessionId)]

InAllowList(cfg, allow) == allow.none \/ cfg.id \in allow.ids

\* a selection that looks at the trigger type before the allow-list
SkipReason_type_first(cfg, b, allow, trig, meta) ==
    IF InAllowList(cfg, allow) /\ trig \in cfg.trigger_types
    THEN (IF ~Evaluate(cfg.trigger_conditions, b, meta, cfg.id)
          THEN "conditions_not_met" ELSE "")
    ELSE IF trig \notin cfg.trigger_types THEN "trigger_type_mismatch"
    ELSE "not_in_allow_list"

\* _is_eligible: the skip reason, "" when the agent is eligible
SkipReason(cfg, b, allow, trig, meta) ==
    IF ~InAllowList(cfg, allow) THEN "not_in_allow_list"
    ELSE IF trig \notin cfg.trigger_types THEN "trigger_type_mismatch"
    ELSE IF ~Evaluate(cfg.trigger_conditions, b, meta, cfg.id)
         THEN "conditions_not_met"
    ELSE ""

IsEligible(cfg, b, allow, trig, meta) == SkipReason(cfg, b, allow, trig, meta) = ""

\* a Phase-2 filter that forgets the allow-list
IsEligibleForPhase2_without_allow_list(cfg, b, allow, meta) ==
    Evaluate(cfg.trigger_conditions, b, meta, cfg.id)

\* _is_eligible_for_phase2
IsEligibleForPhase2(cfg, b, allow, meta) ==
    /\ InAllowList(cfg, allow)
    /\ Evaluate(cfg.trigger_conditions, b, meta, cfg.id)

\* get_event_subscribers: subscribed to any of the names
IsSubscriber(cfg, names) == cfg.subscribed_events \cap names # {}

\* _get_eligible_agents raises: the evaluate of some agent it reaches raises
SelectionRaises(regs, b, allow, trig, meta) ==
    \E i \in 1..Len(regs) :
        /\ InAllowList(regs[i], allow)
        /\ trig \in regs[i].trigger_types
        /\ EvaluateOutcome(regs[i].trigger_conditions, b, meta, regs[i].id)
               = "raises"

\* the Phase-2 filter raises: the evaluate of some subscriber it reaches raises
Phase2SelectionRaises(regs, b, allow, meta, names) ==
    \E i \in 1..Len(regs) :
        /\ IsSubscriber(regs[i], names)
        /\ InAllowList(regs[i], allow)
        /\ EvaluateOutcome(regs[i].trigger_conditions, b, meta, regs[i].id)
               = "raises"

\* the ids of the configs of the registry that pass test, in registry order
RECURSIVE IdsWhere(_, _)
IdsWhere(cfgs, keep) ==
    IF cfgs = <<>> THEN <<>>
    ELSE (IF Head(cfgs).id \in keep THEN <<Head(cfgs).id>> ELSE <<>>)
         \o IdsWhere(Tail(cfgs), keep)

\* _get_eligible_agents
EligibleAgents(regs, b, allow, trig, meta) ==
    IdsWhere(regs, {regs[i].id : i \in {j \in 1..Len(regs) :
                        IsEligible(regs[j], b, allow, trig, meta)}})

\* the Phase-2 agents: subscribers of the emitted names that are eligible
Phase2Agents(regs, b, allow, meta, names) ==
    IdsWhere(regs, {regs[i].id : i \in {j \in 1..Len(regs) :
                        /\ IsSubscriber(regs[j], names)
                        /\ IsEligibleForPhase2(regs[j], b, allow, meta)}})

\* an emission that drops the events
EmitAll_dropping(b, events) == b

RECURSIVE EmitAll(_, _)
EmitAll(b, events) ==
    IF events = <<>> THEN b ELSE EmitAll(emit_event(b, Head(events)), Tail(events))

RECURSIVE EventsOf(_)
EventsOf(responses) ==
    IF responses = <<>> THEN <<>>
    ELSE Head(responses).events \o EventsOf(Tail(responses))

EventNamesOf(events) == {events[i].name : i \in 1..Len(events)}

\* the results that are not None of the agents of ids, in that order
RECURSIVE ResponsesInOrder(_, _)
ResponsesInOrder(ids, res) ==
    IF ids = <<>> THEN <<>>
    ELSE (IF res[Head(ids)].kind = "none" THEN <<>> ELSE <<res[Head(ids)].resp>>)
         \o ResponsesInOrder(Tail(ids), res)

\* a gather that returns the results in the order the tasks completed
ResponsesOf_as_completed(ids, res) == ResponsesInOrder(completed, res)

\* the results of the phase that are not None, in the order of the tasks
RECURSIVE ResponsesOf(_, _)
ResponsesOf(ids, res) ==
    IF ids = <<>> THEN <<>>
    ELSE (IF res[Head(ids)].kind = "none" THEN <<>> ELSE <<res[Head(ids)].resp>>)
         \o ResponsesOf(Tail(ids), res)

RECURSIVE ResultsOf(_, _)
ResultsOf(ids, res) ==
    IF ids = <<>> THEN <<>>
    ELSE <<[id |-> Head(ids), kind |-> res[Head(ids)].kind,
            resp |-> res[Head(ids)].resp]>> \o ResultsOf(Tail(ids), res)

SeqIds(ids) == {ids[i] : i \in 1..Len(ids)}

(***************************************************************************)
(* The actions.                                                            *)
(***************************************************************************)
TurnVars == <<pc, phase, trigger_type, allowed, turn_count, selected,
              phase_snapshot, status, results, start_time, final_response,
              all_events, last_response, evaluated, observed, hist,
              completed, on_agent_error>>

\* the last entry of the log, if any
LastOf(log) == IF log = <<>> THEN <<>> ELSE <<log[Len(log)]>>

\* the task of agent id is complete
Complete(id) == IF scope.ordered THEN Append(completed, id) ELSE completed

\* the last evaluate of the log has ended
EndRun(log, end) == [log EXCEPT ![Len(log)].end = end]

(***************************************************************************)
(* The observers: self.callbacks.                                          *)
(***************************************************************************)
\* the observers of the scenario raise in every callback
ObserversRaise == "observers" \in DOMAIN scope /\ scope.observers = "raising"

\* an observer called outside any try statement: what it raises goes on
Escapes_unguarded(raises) == raises

\* "try: await cb.on_turn_start(context) except Exception as e:
\* logger.error(...)", and the same around every other callback: whether
\* what the observer raises leaves the statement
Escapes(raises) == FALSE

\* what _run_agent_safe returns for the result r of process: None when an
\* exception leaves process or the on_agent_finish of the engine
TaskResult(raises, r) == IF Escapes(raises) THEN NoResult ELSE r

\* one call of every observer: the callback, the turn, the phase (0 where
\* the callback is given none), the agent's name and the skip reason
Received(cb, tc, ph, name, reason) ==
    [cb |-> cb, turn |-> tc, phase |-> ph, name |-> name, reason |-> reason]

\* no call yet
NoCalls == [turn |-> <<>>, agent |-> [id \in Ids |-> <<>>]]

\* the observers receive calls about the turn
TurnCalls(rec, calls) == [rec EXCEPT !.turn = @ \o calls]

\* the observers receive calls about agent id
AgentCalls(rec, id, calls) == [rec EXCEPT !.agent[id] = @ \o calls]

\* on_phase_start, and _run_phase up to the gather: on_agent_start for every
\* agent of the phase
PhaseStartCalls(rec, ids, tc, ph) ==
    [turn |-> Append(rec.turn, Received("on_phase_start", tc, ph, "", "")),
     agent |-> [id \in Ids |->
                  IF id \in SeqIds(ids)
                  THEN Append(rec.agent[id],
                              Received("on_agent_start", tc, ph, id, ""))
                  ELSE rec.agent[id]]]

\* _get_eligible_agents: the on_agent_skipped calls it gives to
\* asyncio.create_task, one for every agent it rejects, until the
\* evaluation of some agent's conditions raises
RECURSIVE SkippedTasks(_, _, _, _, _, _)
SkippedTasks(cfgs, b, allow, trig, meta, tc) ==
    IF cfgs = <<>> THEN <<>>
    ELSE LET cfg == Head(cfgs)
         IN IF /\ InAllowList(cfg, allow)
               /\ trig \in cfg.trigger_types
               /\ EvaluateOutcome(cfg.trigger_conditions, b, meta, cfg.id)
                      = "raises"
            THEN <<>>
            ELSE (IF IsEligible(cfg, b, allow, trig, meta) THEN <<>>
                  ELSE <<Received("on_agent_skipped", tc, 1, cfg.id,
                                  SkipReason(cfg, b, allow, trig, meta))>>)
                 \o SkippedTasks(Tail(cfgs), b, allow, trig, meta, tc)

\* what _run_agent_safe gives the observers when process has returned
EngineAgentFinish(id) ==
    <<Received("on_agent_finish", turn_count, phase, id, "")>>

\* what process gives the observers when evaluate has ended: on_agent_error
\* when it raised, and on_agent_finish in the finally clause
ProcessEnds(id, raised) ==
    (IF raised THEN <<Received("on_agent_error", turn_count, phase, id, "")>>
     ELSE <<>>)
    \o <<Received("on_agent_finish", turn_count, phase, id, "")>>

\* register_agent
RegisterAgent(cfg) ==
    /\ pc = "idle"
    /\ turn_count = 0
    /\ Len(agents) < scope.nAgents
    /\ cfg.id = AgentIds[Len(agents) + 1]
    /\ agent_index' = DictUpdate(agent_index, [k \in {cfg.id} |-> Len(agents)])
    /\ agents' = Append(agents, cfg)
    /\ UNCHANGED <<scope, heap, received, scheduled, evaluation, turn_bb, runs, last_run_time, now, bb, shared_state, TurnVars>>

\* _run_phase up to the creation of the tasks: the snapshot and the context
StartPhase(ph, ids, b) ==
    /\ pc' = "phase"
    /\ phase' = ph
    /\ selected' = ids
    /\ phase_snapshot' = snapshot(b)
    /\ status' = [id \in Ids |-> IF id \in SeqIds(ids) THEN "pending" ELSE "idle"]
    /\ results' = [id \in Ids |-> NoResult]
    /\ completed' = <<>>

\* process_turn up to the start of Phase 1, with observers that raise or not
ProcessTurnOn(raises, allow, trig) ==
    /\ pc \in {"idle", "raised"}
    /\ agents # <<>>
    /\ turn_count < scope.nTurns
    /\ LET tc == turn_count + 1
           b1 == set_var(set_var(set_var(bb, "sys.turn_count", IntV(tc)),
                                 "sys.session_id", StrV(SessionId)),
                         "sys.trigger_type", StrV(trig))
           phase1 == EligibleAgents(agents, b1, allow, trig, Meta(tc, trig, 1))
       IN /\ turn_count' = tc
          /\ trigger_type' = trig
          /\ allowed' = allow
          /\ bb' = b1
          /\ shared_state' = DictUpdate(shared_state, b1.variables)
          /\ final_response' = EmptyResponse
          /\ all_events' = <<>>
          /\ evaluated' = {}
          /\ observed' = [id \in Ids |-> <<>>]
          /\ hist' = <<>>
          /\ LET tasks == SkippedTasks(agents, b1, allow, trig,
                                       Meta(tc, trig, 1), tc)
                 start == TurnCalls(NoCalls,
                                    <<Received("on_turn_start", tc, 0, "", "")>>)
             IN IF Escapes(raises)
                THEN received' = start /\ UNCHANGED scheduled
                ELSE IF \/ SelectionRaises(agents, b1, allow, trig,
                                           Meta(tc, trig, 1))
                        \/ phase1 = <<>>
                THEN /\ received' = start
                     /\ scheduled' = scheduled \o tasks
                ELSE \* the gather of Phase 1 suspends process_turn: the
                     \* event loop runs the tasks that are ready
                     /\ received' = TurnCalls(PhaseStartCalls(start, phase1,
                                                              tc, 1),
                                              scheduled \o tasks)
                     /\ scheduled' = <<>>
          /\ IF \/ Escapes(raises)
                \/ SelectionRaises(agents, b1, allow, trig, Meta(tc, trig, 1))
             THEN \* on_turn_start or _get_eligible_agents raises: nothing
                  \* catches it
                  /\ pc' = "raised"
                  /\ phase' = 1
                  /\ selected' = <<>>
                  /\ phase_snapshot' = NewBlackboard
                  /\ status' = [id \in Ids |-> "idle"]
                  /\ results' = [id \in Ids |-> NoResult]
                  /\ completed' = <<>>
             ELSE IF phase1 # <<>>
             THEN StartPhase(1, phase1, b1)
             ELSE /\ pc' = "final"
                  /\ phase' = 1
                  /\ selected' = <<>>
                  /\ phase_snapshot' = NewBlackboard
                  /\ status' = [id \in Ids |-> "idle"]
                  /\ results' = [id \in Ids |-> NoResult]
                  /\ completed' = <<>>
    /\ on_agent_error' = NoErrors
    /\ start_time' = [id \in Ids |-> 0]
    /\ last_response' = EmptyResponse
    /\ turn_bb' = bb
    /\ UNCHANGED <<scope, heap, evaluation, runs, agents, agent_index, last_run_time, now>>

ProcessTurn(allow, trig) == ProcessTurnOn(ObserversRaise, allow, trig)

\* a cooldown check that a run at the same instant as the last one passes
InCooldown_after_the_instant(t, last, cooldown) ==
    t # last /\ (t - last) < cooldown

\* the cooldown check of process: less than the cooldown has passed since
\* the last run that returned
InCooldown(t, last, cooldown) == (t - last) < cooldown

\* BaseAgent.process up to the call of evaluate, with observers that raise
\* or not
AgentProcessOn(raises, id) ==
    /\ pc = "phase"
    /\ status[id] = "pending"
    /\ LET cfg == ConfigOf(id)
           blocked == \/ trigger_type \notin cfg.trigger_types
                      \/ InCooldown(now, last_run_time[id], cfg.cooldown)
       IN IF blocked \/ Escapes(raises)
          THEN \* process returns None, or its on_agent_start raises:
               \* _run_agent_safe returns None
               /\ status' = [status EXCEPT ![id] = "done"]
               /\ completed' = Complete(id)
               /\ received' = AgentCalls(received, id,
                                  (IF blocked THEN <<>>
                                   ELSE <<Received("on_agent_start",
                                              turn_count, phase, id, "")>>)
                                  \o EngineAgentFinish(id))
               /\ UNCHANGED <<start_time, evaluated, observed, runs>>
          ELSE /\ status' = [status EXCEPT ![id] = "running"]
               /\ received' = AgentCalls(received, id,
                                  <<Received("on_agent_start", turn_count,
                                             phase, id, "")>>)
               /\ UNCHANGED completed
               /\ start_time' = [start_time EXCEPT ![id] = now]
               /\ evaluated' = evaluated \cup {<<phase, id>>}
               /\ observed' = [observed EXCEPT
                                 ![id] = Append(@,
                                     [phase |-> phase, bb |-> phase_snapshot,
                                      \* phase_context is built without
                                      \* agent_config_overrides: the default
                                      agent_config_overrides |-> EmptyMap,
                                      late |-> \E j \in SeqIds(selected) :
                                          /\ results[j].kind = "ok"
                                          /\ results[j].resp.variable_updates
                                                 # EmptyMap])]
               /\ runs' = [runs EXCEPT
                             ![id] = LastOf(@) \o <<[at |-> now,
                                                     end |-> "running"]>>]
    /\ UNCHANGED <<scope, heap, scheduled, evaluation, turn_bb, agents, agent_index, last_run_time, now, bb,
                   shared_state, pc, phase, trigger_type, allowed, turn_count,
                   selected, phase_snapshot, results, final_response,
                   all_events, last_response, hist, on_agent_error>>

AgentProcess(id) == AgentProcessOn(ObserversRaise, id)

\* a process that does not record the run when evaluate returns
EvaluateReturns_without_recording(id, resp) ==
    /\ pc = "phase"
    /\ status[id] = "running"
    /\ status' = [status EXCEPT ![id] = "done"]
    /\ results' = [results EXCEPT ![id] = [kind |-> "ok", resp |-> resp]]
    /\ runs' = [runs EXCEPT ![id] = EndRun(@, "returned")]
    /\ completed' = Complete(id)
    /\ received' = AgentCalls(received, id,
                              ProcessEnds(id, FALSE) \o EngineAgentFinish(id))
    /\ UNCHANGED <<scope, heap, scheduled, evaluation, turn_bb, agents, agent_index, last_run_time, now, bb,
                   shared_state, pc, phase, trigger_type, allowed, turn_count,
                   selected, phase_snapshot, start_time, final_response,
                   all_events, last_response, evaluated, observed, hist,
                   on_agent_error>>

\* a process that records the time at which evaluate returned
EvaluateReturns_recording_the_end(id, resp) ==
    /\ pc = "phase"
    /\ status[id] = "running"
    /\ status' = [status EXCEPT ![id] = "done"]
    /\ results' = [results EXCEPT ![id] = [kind |-> "ok", resp |-> resp]]
    /\ last_run_time' = [last_run_time EXCEPT ![id] = now]
    /\ runs' = [runs EXCEPT ![id] = EndRun(@, "returned")]
    /\ completed' = Complete(id)
    /\ received' = AgentCalls(received, id,
                              ProcessEnds(id, FALSE) \o EngineAgentFinish(id))
    /\ UNCHANGED <<scope, heap, scheduled, evaluation, turn_bb, agents, agent_index, now, bb, shared_state, pc, phase,
                   trigger_type, allowed, turn_count, selected, phase_snapshot,
                   start_time, final_response, all_events, last_response,
                   evaluated, observed, hist, on_agent_error>>

\* evaluate returns resp: process records the run and returns the response
EvaluateReturnsOn(raises, id, resp) ==
    /\ pc = "phase"
    /\ status[id] = "running"
    /\ status' = [status EXCEPT ![id] = "done"]
    /\ results' = [results EXCEPT
                     ![id] = TaskResult(raises, [kind |-> "ok", resp |-> resp])]
    /\ last_run_time' = [last_run_time EXCEPT ![id] = start_time[id]]
    /\ runs' = [runs EXCEPT ![id] = EndRun(@, "returned")]
    /\ completed' = Complete(id)
    /\ received' = AgentCalls(received, id,
                              ProcessEnds(id, FALSE) \o EngineAgentFinish(id))
    /\ UNCHANGED <<scope, heap, scheduled, evaluation, turn_bb, agents, agent_index, now, bb, shared_state, pc, phase,
                   trigger_type, allowed, turn_count, selected, phase_snapshot,
                   start_time, final_response, all_events, last_response,
                   evaluated, observed, hist, on_agent_error>>

EvaluateReturns(id, resp) == EvaluateReturnsOn(ObserversRaise, id, resp)

\* evaluate returns None: process records the run and returns None
EvaluateReturnsNone(id) ==
    /\ pc = "phase"
    /\ status[id] = "running"
    /\ status' = [status EXCEPT ![id] = "done"]
    /\ last_run_time' = [last_run_time EXCEPT ![id] = start_time[id]]
    /\ runs' = [runs EXCEPT ![id] = EndRun(@, "returned")]
    /\ completed' = Complete(id)
    /\ received' = AgentCalls(received, id,
                              ProcessEnds(id, FALSE) \o EngineAgentFinish(id))
    /\ UNCHANGED <<scope, heap, scheduled, evaluation, turn_bb, agents, agent_index, now, bb, shared_state, pc, phase,
                   trigger_type, allowed, turn_count, selected, phase_snapshot,
                   results, start_time, final_response, all_events,
                   last_response, evaluated, observed, hist, on_agent_error>>

\* a lifecycle in which the engine's own handler notifies the observers of
\* the exception that process has already reported
EvaluateRaises_notified_twice(id) ==
    /\ pc = "phase"
    /\ status[id] = "running"
    /\ scope.raises
    /\ status' = [status EXCEPT ![id] = "done"]
    /\ results' = [results EXCEPT
                     ![id] = [kind |-> "error", resp |-> ErrorResponse(id)]]
    /\ runs' = [runs EXCEPT ![id] = EndRun(@, "raised")]
    /\ completed' = Complete(id)
    /\ on_agent_error' = [o \in Observers |->
                             [on_agent_error[o] EXCEPT ![id] = @ + 2]]
    /\ received' = AgentCalls(received, id,
                              <<Received("on_agent_error", turn_count, phase,
                                         id, "")>>
                              \o ProcessEnds(id, TRUE) \o EngineAgentFinish(id))
    /\ UNCHANGED <<scope, heap, scheduled, evaluation, turn_bb, agents, agent_index, last_run_time, now, bb,
                   shared_state, pc, phase, trigger_type, allowed, turn_count,
                   selected, phase_snapshot, start_time, final_response,
                   all_events, last_response, evaluated, observed, hist>>

\* evaluate raises: process gives on_agent_error to every observer and
\* returns the error response
EvaluateRaisesOn(raises, id) ==
    /\ pc = "phase"
    /\ status[id] = "running"
    /\ scope.raises
    /\ status' = [status EXCEPT ![id] = "done"]
    /\ results' = [results EXCEPT
                     ![id] = TaskResult(raises, [kind |-> "error",
                                                 resp |-> ErrorResponse(id)])]
    /\ runs' = [runs EXCEPT ![id] = EndRun(@, "raised")]
    /\ completed' = Complete(id)
    /\ on_agent_error' = [o \in Observers |->
                             [on_agent_error[o] EXCEPT ![id] = @ + 1]]
    /\ received' = AgentCalls(received, id,
                              ProcessEnds(id, TRUE) \o EngineAgentFinish(id))
    /\ UNCHANGED <<scope, heap, scheduled, evaluation, turn_bb, agents, agent_index, last_run_time, now, bb,
                   shared_state, pc, phase, trigger_type, allowed, turn_count,
                   selected, phase_snapshot, start_time, final_response,
                   all_events, last_response, evaluated, observed, hist>>

EvaluateRaises(id) == EvaluateRaisesOn(ObserversRaise, id)

\* the evaluate of agent id calls context.blackboard.set_var: the Blackboard
\* of its context is the one snapshot object that _run_phase gives to every
\* agent of the phase
AgentWritesSnapshot(id) ==
    /\ pc = "phase"
    /\ status[id] = "running"
    /\ get_var(phase_snapshot, "w") # StrV(id)
    /\ phase_snapshot' = set_var(phase_snapshot, "w", StrV(id))
    /\ UNCHANGED <<scope, heap, received, scheduled, evaluation, turn_bb, runs, agents, agent_index, last_run_time, now, bb,
                   shared_state, pc, phase, trigger_type, allowed, turn_count,
                   selected, status, results, start_time, final_response,
                   all_events, last_response, evaluated, observed, hist,
                   completed, on_agent_error>>

\* a dispatch that goes on after Phase 2
DispatchesEvents_after_every_phase(ph, events) ==
    events # <<>> /\ max_phases >= 2

\* "if all_events and self.max_phases >= 2": the events of phase ph are
\* dispatched to a further phase
DispatchesEvents(ph, events) == ph = 1 /\ events # <<>> /\ max_phases >= 2

\* a wait that returns as soon as one task of the phase is complete
Gathered_first_completed(ids, st) == \E id \in SeqIds(ids) : st[id] = "done"

\* "results = await asyncio.gather(*tasks)" returns: every task is complete
Gathered(ids, st) == \A id \in SeqIds(ids) : st[id] = "done"

\* the gather of the phase is complete: merge, then Phase 2 or the end
MergePhaseOn(raises) ==
    /\ pc = "phase"
    /\ Gathered(selected, status)
    /\ LET responses == ResponsesOf(selected, results)
           m == MergeResponses(agents, agent_index, responses, bb, final_response)
           events == EventsOf(responses)
           b2 == IF phase = 1 THEN EmitAll(m.bb, events) ELSE m.bb
           names == EventNamesOf(events)
           phase2 == Phase2Agents(agents, b2, allowed,
                                  Meta(turn_count, trigger_type, phase + 1),
                                  names)
       IN /\ hist' = Append(hist,
                     [phase |-> phase, results |-> ResultsOf(selected, results),
                      pre_bb |-> bb, pre_final |-> final_response,
                      post_bb |-> m.bb, post_final |-> m.final,
                      events |-> events, emit_bb |-> b2,
                      order |-> completed])
          /\ bb' = b2
          /\ final_response' = m.final
          /\ all_events' = all_events \o events
          /\ LET ended == TurnCalls(received,
                                    <<Received("on_phase_end", turn_count,
                                               phase, "", "")>>)
             IN IF /\ ~Escapes(raises)
                   /\ DispatchesEvents(phase, events)
                   /\ ~Phase2SelectionRaises(agents, b2, allowed,
                                             Meta(turn_count, trigger_type,
                                                  phase + 1), names)
                   /\ phase2 # <<>>
                THEN \* the gather of Phase 2 suspends process_turn
                     /\ received' = TurnCalls(PhaseStartCalls(ended, phase2,
                                                  turn_count, phase + 1),
                                              scheduled)
                     /\ scheduled' = <<>>
                ELSE received' = ended /\ UNCHANGED scheduled
          /\ IF Escapes(raises)
             THEN \* on_phase_end raises: nothing catches it
                  /\ pc' = "raised"
                  /\ UNCHANGED <<phase, selected, phase_snapshot, status,
                                 results, completed>>
             ELSE IF /\ DispatchesEvents(phase, events)
                /\ Phase2SelectionRaises(agents, b2, allowed,
                                         Meta(turn_count, trigger_type,
                                              phase + 1), names)
             THEN \* the Phase-2 filter raises: nothing catches it
                  /\ pc' = "raised"
                  /\ phase' = phase + 1
                  /\ UNCHANGED <<selected, phase_snapshot, status, results,
                                 completed>>
             ELSE IF DispatchesEvents(phase, events) /\ phase2 # <<>>
             THEN StartPhase(phase + 1, phase2, b2)
             ELSE /\ pc' = "final"
                  /\ phase' = IF DispatchesEvents(phase, events)
                              THEN phase + 1 ELSE phase
                  /\ UNCHANGED <<selected, phase_snapshot, status, results,
                                 completed>>
    /\ UNCHANGED <<scope, heap, evaluation, turn_bb, runs, agents, agent_index, last_run_time, now, shared_state,
                   trigger_type, allowed, turn_count, start_time, last_response,
                   evaluated, observed, on_agent_error>>

MergePhase == MergePhaseOn(ObserversRaise)

\* the finalization of process_turn and its return
FinalizeOn(raises) ==
    /\ pc = "final"
    /\ bb' = clear_events(bb)
    /\ LET f1 == [final_response EXCEPT !.events = all_events]
           f2 == IF f1.variable_updates # EmptyMap
                 THEN [f1 EXCEPT !.state_updates =
                                    DictUpdate(@, f1.variable_updates)]
                 ELSE f1
       IN /\ final_response' = f2
          /\ last_response' = IF Escapes(raises) THEN last_response ELSE f2
    /\ received' = TurnCalls(received,
                             <<Received("on_turn_end", turn_count, 0, "", "")>>)
    /\ pc' = IF Escapes(raises) THEN "raised" ELSE "idle"
    /\ UNCHANGED <<scope, heap, scheduled, evaluation, turn_bb, runs, agents, agent_index, last_run_time, now, shared_state,
                   phase, trigger_type, allowed, turn_count, selected,
                   phase_snapshot, status, results, start_time, all_events,
                   evaluated, observed, hist, completed, on_agent_error>>

Finalize == FinalizeOn(ObserversRaise)

\* the host awaits something else: the event loop runs the tasks that are
\* ready, which are the on_agent_skipped calls of a selection no gather
\* followed
LoopRuns ==
    /\ pc \in {"idle", "raised"}
    /\ scheduled # <<>>
    /\ received' = TurnCalls(received, scheduled)
    /\ scheduled' = <<>>
    /\ UNCHANGED <<scope, heap, evaluation, turn_bb, runs, agents, agent_index,
                   last_run_time, now, bb, shared_state, TurnVars>>

\* time passes
Tick ==
    /\ now < Epoch + scope.ticks * TickSeconds
    /\ now' = now + TickSeconds
    /\ UNCHANGED <<scope, heap, received, scheduled, evaluation, turn_bb, runs, agents, agent_index, last_run_time, bb, shared_state,
                   TurnVars>>

(***************************************************************************)
(* The host's own calls on context.blackboard between turns.               *)
(***************************************************************************)
\* no object is examined
NoHeap == [cells |-> <<>>]

\* the meta of a first turn
FirstMeta == Meta(1, "turn_based", 1)

EngineVars == <<agents, agent_index, last_run_time, now, shared_state,
                TurnVars, turn_bb, runs>>

\* blackboard.add_fact(f)
HostAddFact(f) ==
    /\ pc = "idle"
    /\ Len(add_fact(bb, f).facts) <= scope.maxFacts
    /\ bb' = add_fact(bb, f)
    /\ evaluation' = NoEvaluation
    /\ UNCHANGED <<scope, heap, received, scheduled, EngineVars>>

\* blackboard.set_var(key, value)
HostSetVar(key, value) ==
    /\ pc = "idle"
    /\ bb' = set_var(bb, key, value)
    /\ evaluation' = NoEvaluation
    /\ UNCHANGED <<scope, heap, received, scheduled, EngineVars>>

\* blackboard.push_queue_items(name, items)
HostPushQueueItems(name, items) ==
    /\ pc = "idle"
    /\ Len(DictGet(bb.queues, name, <<>>)) < scope.maxQueue
    /\ bb' = push_queue_items(bb, name, items)
    /\ evaluation' = NoEvaluation
    /\ UNCHANGED <<scope, heap, received, scheduled, EngineVars>>

\* blackboard.update_memory(agent_id, updates)
HostUpdateMemory(agent_id, updates) ==
    /\ pc = "idle"
    /\ bb' = update_memory(bb, agent_id, updates)
    /\ evaluation' = NoEvaluation
    /\ UNCHANGED <<scope, heap, received, scheduled, EngineVars>>

\* blackboard.emit_event(e)
HostEmitEvent(e) ==
    /\ pc = "idle"
    /\ Len(bb.events) < scope.maxEvents
    /\ bb' = emit_event(bb, e)
    /\ evaluation' = NoEvaluation
    /\ UNCHANGED <<scope, heap, received, scheduled, EngineVars>>

\* blackboard.clear_events()
HostClearEvents ==
    /\ pc = "idle"
    /\ bb' = clear_events(bb)
    /\ evaluation' = NoEvaluation
    /\ UNCHANGED <<scope, heap, received, scheduled, EngineVars>>

\* ConditionEvaluator().evaluate(conditions, blackboard, meta, agent_id): the
\* call changes nothing, so one call is recorded between two calls that
\* change the Blackboard
HostEvaluate(conditions, meta, agent_id) ==
    /\ pc = "idle"
    /\ evaluation = NoEvaluation
    /\ evaluation' = [conditions |-> conditions,
                      outcome |-> EvaluateOutcome(conditions, bb, meta, agent_id)]
    /\ UNCHANGED <<scope, heap, received, scheduled, bb, EngineVars>>

(***************************************************************************)
(* The objects of a Blackboard.  Python lists and dicts are objects: a     *)
(* cell of the heap holds the items of a list or the entries of a dict,    *)
(* and an entry of queues or memory refers to the cell of its list or      *)
(* dict.  A Blackboard object is the addresses of its five containers.     *)
(***************************************************************************)
Ref(a) == [t |-> "ref", a |-> a]
ListCell(l) == [kind |-> "list", l |-> l, d |-> EmptyMap]
DictCell(d) == [kind |-> "dict", l |-> <<>>, d |-> d]

\* Blackboard(): five new containers
NewObject(cells) ==
    [cells |-> cells \o <<ListCell(<<>>), DictCell(EmptyMap), DictCell(EmptyMap),
                          ListCell(<<>>), DictCell(EmptyMap)>>,
     h |-> [events |-> Len(cells) + 1, variables |-> Len(cells) + 2,
            queues |-> Len(cells) + 3, facts |-> Len(cells) + 4,
            memory |-> Len(cells) + 5]]

\* the Blackboard that the object h holds
BlackboardAt(cells, h) ==
    [events |-> cells[h.events].l,
     variables |-> cells[h.variables].d,
     queues |-> [q \in DOMAIN cells[h.queues].d |->
                    cells[cells[h.queues].d[q].a].l],
     facts |-> cells[h.facts].l,
     memory |-> [a \in DOMAIN cells[h.memory].d |->
                    cells[cells[h.memory].d[a].a].d]]

\* self.events.append(event)
emit_event_at(cells, h, e) ==
    [cells |-> [cells EXCEPT ![h.events].l = Append(@, e)], h |-> h]

\* self.variables[key] = value
set_var_at(cells, h, key, value) ==
    [cells |-> [cells EXCEPT
                   ![h.variables].d = DictUpdate(@, [k \in {key} |-> value])],
     h |-> h]

\* the entry name of the dict at address a, bound to a new empty object
\* when it is missing
WithEntry(cells, a, name, empty) ==
    IF name \in DOMAIN cells[a].d THEN cells
    ELSE [Append(cells, empty) EXCEPT
             ![a].d = DictUpdate(@, [k \in {name} |-> Ref(Len(cells) + 1)])]

\* self.queues[queue_name].extend(items), on a new list when there is none
push_queue_items_at(cells, h, name, items) ==
    LET c1 == WithEntry(cells, h.queues, name, ListCell(<<>>))
    IN [cells |-> [c1 EXCEPT ![c1[h.queues].d[name].a].l = @ \o items],
        h |-> h]

\* add_fact on the list self.facts: remove and append in place
add_fact_at(cells, h, f) ==
    [cells |-> [cells EXCEPT ![h.facts].l = add_fact([facts |-> @], f).facts],
     h |-> h]

\* self.memory[agent_id].update(updates), on a new dict when there is none
update_memory_at(cells, h, agent_id, updates) ==
    LET c1 == WithEntry(cells, h.memory, agent_id, DictCell(EmptyMap))
    IN [cells |-> [c1 EXCEPT
                      ![c1[h.memory].d[agent_id].a].d = DictUpdate(@, updates)],
        h |-> h]

IsRef(v) == "a" \in DOMAIN v

\* the entries of dict d under keys, each object they refer to copied into
\* a new cell
RECURSIVE CopyEntries(_, _, _, _)
CopyEntries(cells, d, keys, acc) ==
    IF keys = {} THEN [cells |-> cells, d |-> acc]
    ELSE LET k == CHOOSE x \in keys : TRUE
         IN IF IsRef(d[k])
            THEN CopyEntries(Append(cells, cells[d[k].a]), d, keys \ {k},
                             DictUpdate(acc, [x \in {k} |-> Ref(Len(cells) + 1)]))
            ELSE CopyEntries(cells, d, keys \ {k},
                             DictUpdate(acc, [x \in {k} |-> d[k]]))

\* a copy that shares the objects the entries refer to (copy.copy)
deepcopy_sharing_entries(cells, a) ==
    [cells |-> Append(cells, cells[a]), a |-> Len(cells) + 1]

\* copy.deepcopy of the container at address a: a new object for it and for
\* every list or dict its entries refer to
deepcopy(cells, a) ==
    IF cells[a].kind = "list"
    THEN [cells |-> Append(cells, cells[a]), a |-> Len(cells) + 1]
    ELSE LET r == CopyEntries(cells, cells[a].d, DOMAIN cells[a].d, EmptyMap)
         IN [cells |-> Append(r.cells, DictCell(r.d)), a |-> Len(r.cells) + 1]

\* Blackboard.snapshot on the object h: a new Blackboard of five deep copies
snapshot_at(cells, h) ==
    LET c1 == deepcopy(cells, h.events)
        c2 == deepcopy(c1.cells, h.variables)
        c3 == deepcopy(c2.cells, h.queues)
        c4 == deepcopy(c3.cells, h.facts)
        c5 == deepcopy(c4.cells, h.memory)
    IN [cells |-> c5.cells,
        h |-> [events |-> c1.a, variables |-> c2.a, queues |-> c3.a,
               facts |-> c4.a, memory |-> c5.a]]

\* the addresses of the objects of the Blackboard object h
ObjectsOf(cells, h) ==
    {h.events, h.variables, h.queues, h.facts, h.memory}
    \cup {cells[h.queues].d[q].a : q \in DOMAIN cells[h.queues].d}
    \cup {cells[h.memory].d[a].a : a \in DOMAIN cells[h.memory].d}

(***************************************************************************)
(* Serialization (Blackboard.to_dict / from_dict).                         *)
(***************************************************************************)
\* Event.model_dump and Event(**e)
DumpEvent(e) ==
    [k \in {"name", "source_agent"} |->
        IF k = "name" THEN StrV(e.name) ELSE StrV(e.source_agent)]
LoadEvent(d) == [name |-> d["name"].s, source_agent |-> d["source_agent"].s]

\* Fact.model_dump and Fact(**f): an absent key is None
DumpFact(f) ==
    [k \in {"type", "key", "value", "confidence", "source_agent"} |->
        CASE k = "type" -> StrV(f.type)
          [] k = "key" -> IF f.key = NoKey THEN NoneV ELSE StrV(f.key)
          [] k = "value" -> f.value
          [] k = "confidence" -> IntV(f.confidence)
          [] OTHER -> StrV(f.source_agent)]
LoadFact(d) ==
    [type |-> d["type"].s,
     key |-> IF d["key"].t = "none" THEN NoKey ELSE d["key"].s,
     value |-> d["value"], confidence |-> d["confidence"].n,
     source_agent |-> d["source_agent"].s]

\* a to_dict that leaves the transient events out
to_dict_without_events(b) ==
    [variables |-> b.variables, queues |-> b.queues,
     facts |-> [i \in 1..Len(b.facts) |-> DumpFact(b.facts[i])],
     memory |-> b.memory]

to_dict(b) ==
    [events |-> [i \in 1..Len(b.events) |-> DumpEvent(b.events[i])],
     variables |-> b.variables, queues |-> b.queues,
     facts |-> [i \in 1..Len(b.facts) |-> DumpFact(b.facts[i])],
     memory |-> b.memory]

\* data.get(key, default) of the serialized map
from_dict(data) ==
    [events |-> IF "events" \in DOMAIN data
                THEN [i \in 1..Len(data.events) |-> LoadEvent(data.events[i])]
                ELSE <<>>,
     variables |-> IF "variables" \in DOMAIN data THEN data.variables ELSE EmptyMap,
     queues |-> IF "queues" \in DOMAIN data THEN data.queues ELSE EmptyMap,
     facts |-> IF "facts" \in DOMAIN data
               THEN [i \in 1..Len(data.facts) |-> LoadFact(data.facts[i])]
               ELSE <<>>,
     memory |-> IF "memory" \in DOMAIN data THEN data.memory ELSE EmptyMap]

(***************************************************************************)
(* The host's calls on a Blackboard object and on a snapshot of it.        *)
(***************************************************************************)
\* the Blackboard that target ("orig" or "snap") holds when no call on the
\* other object reaches it
AloneValue(target) == IF target = "orig" THEN bb ELSE phase_snapshot

\* the Blackboard stays within the sizes of the scenario
Bounded(b) ==
    /\ Len(b.events) <= scope.maxEvents
    /\ Len(b.facts) <= scope.maxFacts
    /\ \A q \in DOMAIN b.queues : Len(b.queues[q]) <= scope.maxItems

ObjectFrame ==
    <<scope, agents, agent_index, last_run_time, now, shared_state, pc, phase,
      trigger_type, allowed, turn_count, selected, status, results,
      start_time, final_response, all_events, last_response, evaluated,
      observed, hist, turn_bb, runs, evaluation, completed, on_agent_error,
      received, scheduled>>

\* a call on target that leaves the heap as post: alone is the Blackboard
\* the call gives on a Blackboard nothing else refers to
Call(target, post, alone) ==
    /\ pc = "idle"
    /\ target = "snap" => heap.taken
    /\ Bounded(alone)
    /\ Len(post.cells) <= scope.maxCells
    /\ heap' = [heap EXCEPT !.cells = post.cells, ![target] = post.h]
    /\ IF target = "orig"
       THEN bb' = alone /\ UNCHANGED phase_snapshot
       ELSE phase_snapshot' = alone /\ UNCHANGED bb
    /\ UNCHANGED ObjectFrame

ObjectEmitEvent(target, e) ==
    Call(target, emit_event_at(heap.cells, heap[target], e),
         emit_event(AloneValue(target), e))

ObjectSetVar(target, key, value) ==
    Call(target, set_var_at(heap.cells, heap[target], key, value),
         set_var(AloneValue(target), key, value))

ObjectPushQueueItems(target, name, items) ==
    Call(target, push_queue_items_at(heap.cells, heap[target], name, items),
         push_queue_items(AloneValue(target), name, items))

ObjectAddFact(target, f) ==
    Call(target, add_fact_at(heap.cells, heap[target], f),
         add_fact(AloneValue(target), f))

ObjectUpdateMemory(target, agent_id, updates) ==
    Call(target, update_memory_at(heap.cells, heap[target], agent_id, updates),
         update_memory(AloneValue(target), agent_id, updates))

\* snap = blackboard.snapshot()
TakeSnapshot ==
    /\ pc = "idle"
    /\ ~heap.taken
    /\ LET post == snapshot_at(heap.cells, heap.orig)
       IN heap' = [heap EXCEPT !.cells = post.cells, !.snap = post.h,
                               !.taken = TRUE]
    /\ phase_snapshot' = snapshot(bb)
    /\ UNCHANGED <<bb, ObjectFrame>>

(***************************************************************************)
(* Scenarios and the specification.                                        *)
(***************************************************************************)
ConfigTemplates(priorities, typeSets, subscriptions, conditions, cooldowns) ==
    {AgentConfig(NoAgent, p, ty, su, co, cd) :
        p \in priorities, ty \in typeSets, su \in subscriptions,
        co \in conditions, cd \in cooldowns}

Shapes(insights, writes, events) ==
    {[ins |-> i, wr |-> w, ev |-> e] : i \in insights, w \in writes, e \in events}

\* merge ordering: agents that differ in priority only, one turn
MergeScope ==
    [nAgents |-> MaxAgents, nTurns |-> 1,
     configs |-> ConfigTemplates({0, 1}, {{"turn_based"}}, {{}},
                                 {NoConditions}, {DefaultCooldown}),
     triggers |-> {"turn_based"},
     allows |-> {AllowAll},
     shapes |-> Shapes(BOOLEAN, BOOLEAN, {""}),
     ordered |-> FALSE, raises |-> TRUE, ticks |-> 1]

\* selection and event dispatch: an emitter, an event-only subscriber, a
\* subscriber that waits for variable v, a subscriber that accepts force
DispatchScope ==
    [nAgents |-> MaxSubscribers, nTurns |-> 1,
     configs |-> {AgentConfig(NoAgent, 0, {"turn_based"}, {}, NoConditions,
                              DefaultCooldown),
                  AgentConfig(NoAgent, 0, {"event"}, {"e1"}, NoConditions,
                              DefaultCooldown),
                  AgentConfig(NoAgent, 0, {"turn_based"}, {"e1"},
                              VarSetCondition, DefaultCooldown),
                  AgentConfig(NoAgent, 0, {"turn_based", "force"}, {"e1"},
                              NoConditions, DefaultCooldown)},
     triggers |-> {"turn_based", "force"},
     allows |-> {AllowAll, AllowOnly({"a1"})},
     shapes |-> {[ins |-> FALSE, wr |-> FALSE, ev |-> ""],
                 [ins |-> FALSE, wr |-> FALSE, ev |-> "e1"],
                 [ins |-> FALSE, wr |-> TRUE, ev |-> "e1"],
                 [ins |-> TRUE, wr |-> TRUE, ev |-> "e1"]},
     ordered |-> FALSE, raises |-> TRUE, ticks |-> 1]

\* a session of several turns: an emitter in cooldown between turns and a
\* subscriber without cooldown
SessionScope ==
    [nAgents |-> MaxSessionAgents, nTurns |-> MaxTurns,
     configs |-> {AgentConfig(NoAgent, 0, {"turn_based"}, {}, NoConditions,
                              DefaultCooldown),
                  AgentConfig(NoAgent, 0, {"turn_based"}, {"e1"}, NoConditions,
                              0)},
     triggers |-> {"turn_based", "force"},
     allows |-> {AllowAll},
     shapes |-> Shapes({FALSE}, {FALSE}, {"", "e1"}),
     ordered |-> FALSE, raises |-> TRUE, ticks |-> MaxNow]

\* a fact as the host builds it
HostFact(type, key, confidence) ==
    [type |-> type, key |-> key, value |-> StrV("host"),
     confidence |-> confidence, source_agent |-> NoAgent]

\* the host's add_fact calls on a Blackboard: facts of two types, with and
\* without a key, of two confidences (in tenths)
BlackboardScope ==
    [facts |-> {HostFact("t", k, c) :
                    k \in {NoKey} \cup {FactKeys[i] : i \in 1..MaxKeys},
                    c \in {5, 10}}
               \cup {HostFact("u", k, 10) : k \in {NoKey, FactKeys[1]}},
     maxFacts |-> MaxFacts]

\* the Blackboards the condition rules read: a variable of several types,
\* a fact with or without key, a queue and a memory entry of the first agent
ConditionsScope ==
    [facts |-> {HostFact("t", NoKey, 10), HostFact("t", FactKeys[1], 10)},
     values |-> {IntV(3), StrV("x")},
     maxFacts |-> 2, maxQueue |-> 1]

\* facts in a turn: agents that differ in priority emit a fact of type "t"
\* each, and the host adds facts of that type between turns
FactMergeScope ==
    [nAgents |-> MaxFactAgents, nTurns |-> 1,
     configs |-> ConfigTemplates({0, 1}, {{"turn_based"}}, {{}},
                                 {NoConditions}, {DefaultCooldown}),
     triggers |-> {"turn_based"},
     allows |-> {AllowAll},
     keys |-> {NoKey, FactKeys[1]},
     confidences |-> {5, 10},
     facts |-> {HostFact("t", FactKeys[1], 5), HostFact("t", FactKeys[1], 10),
                HostFact("t", NoKey, 10)},
     maxFacts |-> 2,
     ordered |-> FALSE, raises |-> TRUE, ticks |-> 0]

\* context.agent_config_overrides of every turn of a session: none, a
\* cooldown_modifier for the first agent, or one for an agent that is not
\* registered
Overrides ==
    {EmptyMap} \cup {[k \in {id} |-> m] : id \in {AgentIds[1], AgentIds[4]},
                                          m \in {0 - DefaultCooldown, DefaultCooldown}}

\* a session where cooldowns matter: agents that subscribe to the event
\* they emit, turns that follow each other with or without a pause
CooldownScope ==
    [nAgents |-> MaxCooldownAgents, nTurns |-> MaxTurns,
     configs |-> {AgentConfig(NoAgent, 0, {"turn_based"}, {"e1"}, NoConditions,
                              DefaultCooldown)},
     triggers |-> {"turn_based"},
     allows |-> {AllowAll},
     shapes |-> Shapes({FALSE}, {FALSE}, {"", "e1"}),
     overrides |-> EmptyMap,
     ordered |-> FALSE, raises |-> TRUE, ticks |-> MaxNow]

\* malformed trigger_conditions: an emitter, an agent whose conditions are
\* not a dict, and an event-only subscriber whose "rules" is not a list
MalformedScope ==
    [nAgents |-> 2, nTurns |-> 2,
     configs |-> {AgentConfig(NoAgent, 0, {"turn_based"}, {}, NoConditions,
                              DefaultCooldown),
                  AgentConfig(NoAgent, 0, {"turn_based"}, {}, ConditionsNotADict,
                              DefaultCooldown),
                  AgentConfig(NoAgent, 0, {"event"}, {"e1"}, RulesNotAList,
                              DefaultCooldown)},
     triggers |-> {"turn_based"},
     allows |-> {AllowAll},
     shapes |-> Shapes({TRUE}, {FALSE}, {"", "e1"}),
     ordered |-> FALSE, raises |-> TRUE, ticks |-> 1]

\* completion order: agents that differ in priority, with and without
\* insights, complete in every order
OrderScope ==
    [nAgents |-> MaxOrderAgents, nTurns |-> 1,
     configs |-> ConfigTemplates({0, 1}, {{"turn_based"}}, {{}},
                                 {NoConditions}, {DefaultCooldown}),
     triggers |-> {"turn_based"},
     allows |-> {AllowAll},
     shapes |-> Shapes(BOOLEAN, BOOLEAN, {""}),
     ordered |-> TRUE, raises |-> TRUE, ticks |-> 1]

\* the Blackboards the host serializes: events of two names, a variable and
\* a memory entry of several types, a queue, facts with and without a key
RoundTripScope ==
    [facts |-> {HostFact("t", NoKey, 10), HostFact("t", FactKeys[1], 5),
                HostFact("u", FactKeys[2], 10)},
     values |-> {IntV(3), StrV("x"), NoneV},
     events |-> {[name |-> n, source_agent |-> AgentIds[1]] : n \in EventNames},
     maxEvents |-> MaxItems, maxFacts |-> MaxItems, maxQueue |-> MaxItems]

\* a Blackboard object and its snapshot under the host's calls
SnapshotScope ==
    [facts |-> {HostFact("t", NoKey, 10)},
     values |-> {IntV(3)},
     maxEvents |-> 1, maxFacts |-> 1, maxItems |-> MaxItems,
     maxCells |-> MaxCells]

\* a session of an agent without cooldown that overwrites the sys.* variables
\* or answers in the v1 schema
LegacyScope ==
    [nAgents |-> MaxSessionAgents, nTurns |-> MaxTurns,
     configs |-> {AgentConfig(NoAgent, 0, {"turn_based", "force"}, {},
                              NoConditions, 0)},
     triggers |-> {"turn_based", "force"},
     allows |-> {AllowAll},
     responses |-> {SysResponse} \cup LegacyResponses,
     ordered |-> FALSE, raises |-> TRUE, ticks |-> 1]

\* a phase of two agents that write to the Blackboard of their context
SharedScope ==
    [nAgents |-> MaxSubscribers, nTurns |-> 1,
     configs |-> ConfigTemplates({0, 1}, {{"turn_based"}}, {{}},
                                 {NoConditions}, {DefaultCooldown}),
     triggers |-> {"turn_based"},
     allows |-> {AllowAll},
     responses |-> {EmptyResponse, SysResponse},
     ordered |-> FALSE, raises |-> TRUE, ticks |-> 1]

\* an event of Phase 1 and its subscribers: an emitter and an agent that
\* runs in Phase 1 and subscribes to the event, either of which may raise
EventScope ==
    [nAgents |-> MaxSubscribers, nTurns |-> 1,
     configs |-> {AgentConfig(NoAgent, 0, {"turn_based"}, {}, NoConditions,
                              DefaultCooldown),
                  AgentConfig(NoAgent, 0, {"turn_based"}, {"e1"}, NoConditions,
                              DefaultCooldown)},
     triggers |-> {"turn_based"},
     allows |-> {AllowAll},
     shapes |-> {[ins |-> FALSE, wr |-> FALSE, ev |-> ""],
                 [ins |-> TRUE, wr |-> TRUE, ev |-> "e1"]},
     ordered |-> FALSE, raises |-> TRUE, ticks |-> 1]

\* a session under both triggers: an agent that accepts force and one that
\* does not, both with a cooldown, and a clock that moves during the turns
ForceScope ==
    [nAgents |-> MaxCooldownAgents, nTurns |-> MaxTurns,
     configs |-> {AgentConfig(NoAgent, 0, {"turn_based", "force"}, {},
                              NoConditions, DefaultCooldown),
                  AgentConfig(NoAgent, 0, {"turn_based"}, {}, NoConditions,
                              DefaultCooldown)},
     triggers |-> {"turn_based", "force"},
     allows |-> {AllowAll},
     shapes |-> Shapes({FALSE}, {FALSE}, {""}),
     ordered |-> FALSE, raises |-> TRUE, ticks |-> MaxNow]

\* a session of an agent without cooldown that subscribes to the event it
\* emits: writes to every container in the v2 schema, with an event and
\* without, and writes in the v1 schema
AggregateScope ==
    [nAgents |-> MaxSessionAgents, nTurns |-> MaxTurns,
     configs |-> {AgentConfig(NoAgent, 0, {"turn_based"}, {"e1"},
                              NoConditions, 0)},
     triggers |-> {"turn_based"},
     allows |-> {AllowAll},
     responses |-> {ShapeResponse(AgentIds[1], TRUE, TRUE, "e1"),
                    [EmptyResponse EXCEPT
                        !.variable_updates = [k \in {"v"} |-> IntV(3)]],
                    [EmptyResponse EXCEPT
                        !.state_updates =
                            [k \in {"v", "memory_a1"} |->
                                IF k = "v" THEN StrV("x")
                                ELSE DictV([m \in {"n"} |-> StrV("x")])]]},
     ordered |-> FALSE, raises |-> TRUE, ticks |-> 1]

\* the observers: an agent that emits the event it subscribes to, one that
\* runs under the keyword trigger only and one that waits for variable v,
\* with and without an allow-list, before observers that return or that
\* raise
ObserverScope ==
    [nAgents |-> MaxSubscribers, nTurns |-> MaxTurns,
     configs |-> {AgentConfig(NoAgent, 0, {"turn_based"}, {"e1"}, NoConditions,
                              DefaultCooldown),
                  AgentConfig(NoAgent, 0, {"keyword"}, {"e1"}, NoConditions, 0),
                  AgentConfig(NoAgent, 0, {"turn_based"}, {}, VarSetCondition,
                              0)},
     triggers |-> {"turn_based"},
     allows |-> {AllowAll, AllowOnly({AgentIds[1]})},
     shapes |-> {[ins |-> TRUE, wr |-> TRUE, ev |-> "e1"]},
     observers |-> "quiet",
     ordered |-> FALSE, raises |-> TRUE, ticks |-> 0]

InitWith(sc) ==
    /\ scope = sc
    /\ agents = <<>>
    /\ agent_index = EmptyMap
    /\ last_run_time = [id \in Ids |-> 0]
    /\ now = Epoch
    /\ bb = NewBlackboard
    /\ shared_state = EmptyMap
    /\ pc = "idle"
    /\ phase = 1
    /\ trigger_type = "turn_based"
    /\ allowed = AllowAll
    /\ turn_count = 0
    /\ selected = <<>>
    /\ phase_snapshot = NewBlackboard
    /\ status = [id \in Ids |-> "idle"]
    /\ results = [id \in Ids |-> NoResult]
    /\ start_time = [id \in Ids |-> 0]
    /\ final_response = EmptyResponse
    /\ all_events = <<>>
    /\ last_response = EmptyResponse
    /\ evaluated = {}
    /\ observed = [id \in Ids |-> <<>>]
    /\ hist = <<>>
    /\ turn_bb = NewBlackboard
    /\ runs = [id \in Ids |-> <<>>]
    /\ evaluation = NoEvaluation
    /\ completed = <<>>
    /\ on_agent_error = NoErrors
    /\ heap = NoHeap
    /\ received = NoCalls
    /\ scheduled = <<>>

Init == InitWith(MergeScope)
InitDispatch == InitWith(DispatchScope)
InitSession == InitWith(SessionScope)
InitBlackboard == InitWith(BlackboardScope)
InitConditions == InitWith(ConditionsScope)
InitFactMerge == InitWith(FactMergeScope)
InitMalformed == InitWith(MalformedScope)
InitOrder == InitWith(OrderScope)
InitLegacy == InitWith(LegacyScope)
InitShared == InitWith(SharedScope)
InitEvent == InitWith(EventScope)
InitForce == InitWith(ForceScope)
InitAggregate == InitWith(AggregateScope)
InitRoundTrip == InitWith(RoundTripScope)
InitSnapshot ==
    /\ scope = SnapshotScope
    /\ agents = <<>>
    /\ agent_index = EmptyMap
    /\ last_run_time = [id \in Ids |-> 0]
    /\ now = Epoch
    /\ bb = NewBlackboard
    /\ shared_state = EmptyMap
    /\ pc = "idle"
    /\ phase = 1
    /\ trigger_type = "turn_based"
    /\ allowed = AllowAll
    /\ turn_count = 0
    /\ selected = <<>>
    /\ phase_snapshot = NewBlackboard
    /\ status = [id \in Ids |-> "idle"]
    /\ results = [id \in Ids |-> NoResult]
    /\ start_time = [id \in Ids |-> 0]
    /\ final_response = EmptyResponse
    /\ all_events = <<>>
    /\ last_response = EmptyResponse
    /\ evaluated = {}
    /\ observed = [id \in Ids |-> <<>>]
    /\ hist = <<>>
    /\ turn_bb = NewBlackboard
    /\ runs = [id \in Ids |-> <<>>]
    /\ evaluation = NoEvaluation
    /\ completed = <<>>
    /\ on_agent_error = NoErrors
    /\ heap = [cells |-> NewObject(<<>>).cells, orig |-> NewObject(<<>>).h,
               snap |-> NewObject(<<>>).h, taken |-> FALSE]
    /\ received = NoCalls
    /\ scheduled = <<>>
InitCooldown == \E ov \in Overrides : InitWith([CooldownScope EXCEPT !.overrides = ov])

Next ==
    \/ \E t \in scope.configs :
          RegisterAgent([t EXCEPT !.id = AgentIds[Len(agents) + 1]])
    \/ \E allow \in scope.allows, trig \in scope.triggers : ProcessTurn(allow, trig)
    \/ \E id \in Ids : AgentProcess(id)
    \/ \E id \in Ids, sh \in scope.shapes :
          EvaluateReturns(id, ShapeResponse(id, sh.ins, sh.wr, sh.ev))
    \/ \E id \in Ids : EvaluateReturnsNone(id)
    \/ \E id \in Ids : EvaluateRaises(id)
    \/ MergePhase
    \/ Finalize
    \/ Tick

Spec == Init /\ [][Next]_vars
SpecDispatch == InitDispatch /\ [][Next]_vars
SpecSession == InitSession /\ [][Next]_vars

\* the Blackboard under the host's calls alone
NextBlackboard == \E f \in scope.facts : HostAddFact(f)

SpecBlackboard == InitBlackboard /\ [][NextBlackboard]_vars

\* the Blackboard under the host's calls on every container
NextConditions ==
    \/ \E f \in scope.facts : HostAddFact(f)
    \/ \E v \in scope.values : HostSetVar("v", v)
    \/ HostPushQueueItems("q", <<IntV(3)>>)
    \/ \E v \in scope.values : HostUpdateMemory(AgentIds[1], [k \in {"m"} |-> v])
    \/ \E c \in ConditionInputs : HostEvaluate(c, FirstMeta, AgentIds[1])

SpecConditions == InitConditions /\ [][NextConditions]_vars

\* turns whose agents emit facts, and the host's add_fact between turns
NextFactMerge ==
    \/ \E t \in scope.configs :
          RegisterAgent([t EXCEPT !.id = AgentIds[Len(agents) + 1]])
    \/ \E allow \in scope.allows, trig \in scope.triggers : ProcessTurn(allow, trig)
    \/ \E id \in Ids : AgentProcess(id)
    \/ \E id \in Ids, k \in scope.keys, c \in scope.confidences :
          EvaluateReturns(id, FactResponse(id, k, c))
    \/ \E id \in Ids : EvaluateRaises(id)
    \/ MergePhase
    \/ Finalize
    \/ \E f \in scope.facts : HostAddFact(f)

SpecFactMerge == InitFactMerge /\ [][NextFactMerge]_vars
SpecCooldown == InitCooldown /\ [][Next]_vars
SpecMalformed == InitMalformed /\ [][Next]_vars
SpecEvent == InitEvent /\ [][Next]_vars
SpecForce == InitForce /\ [][Next]_vars
SpecOrder == InitOrder /\ [][Next]_vars

\* the engine with agents that answer with the responses of the scenario
NextLegacy ==
    \/ \E t \in scope.configs :
          RegisterAgent([t EXCEPT !.id = AgentIds[Len(agents) + 1]])
    \/ \E allow \in scope.allows, trig \in scope.triggers : ProcessTurn(allow, trig)
    \/ \E id \in Ids : AgentProcess(id)
    \/ \E id \in Ids, r \in scope.responses : EvaluateReturns(id, r)
    \/ \E id \in Ids : EvaluateRaises(id)
    \/ MergePhase
    \/ Finalize

InitObserver ==
    \E o \in {"quiet", "raising"} :
        InitWith([ObserverScope EXCEPT !.observers = o])

\* a session whose host lets the event loop run between the turns
NextObserver ==
    \/ \E t \in scope.configs :
          RegisterAgent([t EXCEPT !.id = AgentIds[Len(agents) + 1]])
    \/ \E allow \in scope.allows, trig \in scope.triggers : ProcessTurn(allow, trig)
    \/ \E id \in Ids : AgentProcess(id)
    \/ \E id \in Ids, sh \in scope.shapes :
          EvaluateReturns(id, ShapeResponse(id, sh.ins, sh.wr, sh.ev))
    \/ \E id \in Ids : EvaluateRaises(id)
    \/ MergePhase
    \/ Finalize
    \/ LoopRuns

SpecObserver == InitObserver /\ [][NextObserver]_vars

SpecAggregate == InitAggregate /\ [][NextLegacy]_vars
SpecLegacy == InitLegacy /\ [][NextLegacy]_vars

\* the engine with agents that write to the Blackboard of their context
NextShared ==
    \/ NextLegacy
    \/ \E id \in Ids : AgentWritesSnapshot(id)

SpecShared == InitShared /\ [][NextShared]_vars

\* the host's calls on a Blackboard and on the snapshot it took of it
NextSnapshot ==
    \/ TakeSnapshot
    \/ \E target \in {"orig", "snap"} :
          \/ ObjectEmitEvent(target, [name |-> "e1", source_agent |-> NoAgent])
          \/ \E v \in scope.values : ObjectSetVar(target, "v", v)
          \/ ObjectPushQueueItems(target, "q", <<IntV(3)>>)
          \/ \E f \in scope.facts : ObjectAddFact(target, f)
          \/ \E key \in {"m", "n"}, v \in scope.values :
                ObjectUpdateMemory(target, AgentIds[1], [k \in {key} |-> v])

SpecSnapshot == InitSnapshot /\ [][NextSnapshot]_vars

\* the Blackboard under the host's calls on its five containers
NextRoundTrip ==
    \/ \E e \in scope.events : HostEmitEvent(e)
    \/ HostClearEvents
    \/ \E f \in scope.facts : HostAddFact(f)
    \/ \E v \in scope.values : HostSetVar("v", v)
    \/ \E v \in scope.values : HostPushQueueItems("q", <<v>>)
    \/ \E v \in scope.values : HostUpdateMemory(AgentIds[1], [k \in {"m"} |-> v])

SpecRoundTrip == InitRoundTrip /\ [][NextRoundTrip]_vars

(***************************************************************************)
(* Properties.                                                             *)
(***************************************************************************)
TurnDone == pc = "idle" /\ turn_count > 0

\* the results of merge h that evaluate returned (not raised, not None)
OkResults(h) == {i \in 1..Len(h.results) : h.results[i].kind = "ok"}
FailedResults(h) == {i \in 1..Len(h.results) : h.results[i].kind = "error"}

\* the successful results of merge h that write variable k
Writers(h, k) ==
    {i \in OkResults(h) : k \in DOMAIN h.results[i].resp.variable_updates}

PriorityOf(h, i) == ConfigOf(h.results[i].id).priority
IndexOf(h, i) == agent_index[h.results[i].id]

\* C1: in a turn of one phase, when the successful agents that write "v"
\* have pairwise distinct priorities, the Blackboard and the aggregate
\* response hold the value written by the one with the largest priority,
\* with or without insights and for every registration order.
C1_HighestPriorityWins ==
    (TurnDone /\ Len(hist) = 1) =>
        LET h == hist[1]
            W == Writers(h, "v")
        IN (/\ Cardinality(W) >= 2
            /\ \A x, y \in W : x # y => PriorityOf(h, x) # PriorityOf(h, y))
           => LET top == CHOOSE x \in W :
                             \A y \in W : PriorityOf(h, y) <= PriorityOf(h, x)
                  val == h.results[top].resp.variable_updates["v"]
              IN /\ bb.variables["v"] = val
                 /\ last_response.variable_updates["v"] = val

\* C2: in a turn of one phase, when the successful agents that write "v"
\* all have the same priority, the Blackboard holds the value written by the
\* one registered last.
C2_LaterRegistrationWins ==
    (TurnDone /\ Len(hist) = 1) =>
        LET h == hist[1]
            W == Writers(h, "v")
        IN (/\ Cardinality(W) >= 2
            /\ \A x, y \in W : PriorityOf(h, x) = PriorityOf(h, y))
           => LET last == CHOOSE x \in W :
                              \A y \in W : IndexOf(h, y) <= IndexOf(h, x)
              IN bb.variables["v"] = h.results[last].resp.variable_updates["v"]

\* every observation made by an evaluate of phase ph in this turn
ObservationsIn(ph) ==
    {o \in UNION {{observed[id][i] : i \in 1..Len(observed[id])} : id \in Ids} :
        o.phase = ph}

RECURSIVE SelectOk(_)
SelectOk(rs) ==
    IF rs = <<>> THEN <<>>
    ELSE (IF Head(rs).kind = "ok" THEN <<Head(rs).resp>> ELSE <<>>)
         \o SelectOk(Tail(rs))

WithoutInsights(r) == [r EXCEPT !.insights = <<>>]

Raised(id) ==
    \E k \in 1..Len(hist) : \E i \in FailedResults(hist[k]) :
        hist[k].results[i].id = id

Returned(id) ==
    \E k \in 1..Len(hist) : \E i \in OkResults(hist[k]) :
        hist[k].results[i].id = id

InSeq(x, q) == \E i \in 1..Len(q) : q[i] = x

\* Blackboard b holds a write, push, fact, memory entry or event of agent id
BlackboardCarries(b, id) ==
    \/ DictGet(b.variables, "v", NoneV) = StrV(id)
    \/ InSeq(StrV(id), DictGet(b.queues, "q", <<>>))
    \/ \E i \in 1..Len(b.facts) : b.facts[i].source_agent = id
    \/ \E a \in DOMAIN b.memory : DictGet(b.memory[a], "m", NoneV) = StrV(id)
    \/ \E i \in 1..Len(b.events) : b.events[i].source_agent = id

\* response r holds a write, push, fact, memory entry or event of agent id
ResponseCarries(r, id) ==
    \/ DictGet(r.variable_updates, "v", NoneV) = StrV(id)
    \/ DictGet(r.state_updates, "v", NoneV) = StrV(id)
    \/ InSeq(StrV(id), DictGet(r.queue_pushes, "q", <<>>))
    \/ \E i \in 1..Len(r.facts) : r.facts[i].source_agent = id
    \/ DictGet(r.memory_updates, "m", NoneV) = StrV(id)
    \/ \E i \in 1..Len(r.events) : r.events[i].source_agent = id

\* C4: a merge with failed agents leaves the Blackboard, the aggregate
\* response (its insights aside) and the collected events exactly as the
\* merge of the successful responses alone does; after the turn neither the
\* Blackboard nor the aggregate holds anything of an agent that only raised,
\* and the pushes and events of every agent that returned are there.
C4_FailedAgentLeavesNothing ==
    /\ \A k \in 1..Len(hist) :
          LET h == hist[k]
              m == MergeResponses(agents, agent_index, SelectOk(h.results),
                                  h.pre_bb, h.pre_final)
          IN FailedResults(h) # {} =>
                /\ h.post_bb = m.bb
                /\ WithoutInsights(h.post_final) = WithoutInsights(m.final)
                /\ h.events = EventsOf(SelectOk(h.results))
    /\ TurnDone =>
          \A id \in RegisteredIds :
             /\ (Raised(id) /\ ~Returned(id)) =>
                   /\ ~BlackboardCarries(bb, id)
                   /\ ~ResponseCarries(last_response, id)
             /\ \A k \in 1..Len(hist) : \A i \in OkResults(hist[k]) :
                   LET r == hist[k].results[i].resp
                   IN hist[k].results[i].id = id =>
                        /\ r.queue_pushes # EmptyMap =>
                              /\ InSeq(StrV(id), bb.queues["q"])
                              /\ InSeq(StrV(id), last_response.queue_pushes["q"])
                        /\ \A j \in 1..Len(r.events) :
                              InSeq(r.events[j], last_response.events)

\* a finished turn in which one agent raised and another agent of the same
\* phase returned writes and an event
C4_Witness ==
    /\ TurnDone
    /\ \E k \in 1..Len(hist) :
          /\ FailedResults(hist[k]) # {}
          /\ \E i \in OkResults(hist[k]) :
                /\ hist[k].results[i].resp.variable_updates # EmptyMap
                /\ hist[k].results[i].resp.events # <<>>

\* the registry without agent id, and the registration indices it then has
RemoveAgent(regs, id) == SelectSeq(regs, LAMBDA c : c.id # id)
Reindex(regs) ==
    [id \in {regs[i].id : i \in 1..Len(regs)} |-> FindAgent(regs, id) - 1]

\* the responses of the results of the agents other than id, in task order
RECURSIVE ResponsesWithout(_, _)
ResponsesWithout(rs, id) ==
    IF rs = <<>> THEN <<>>
    ELSE (IF Head(rs).kind # "none" /\ Head(rs).id # id
          THEN <<Head(rs).resp>> ELSE <<>>)
         \o ResponsesWithout(Tail(rs), id)

\* C5: in a turn of one phase in which agent f raised, the merge of the same
\* turn with f removed from the registry gives the same Blackboard and the
\* same aggregate response, the error insight of f aside.
C5_RemovingFailedAgent ==
    (TurnDone /\ Len(hist) = 1) =>
        \A i \in FailedResults(hist[1]) :
            LET h == hist[1]
                f == h.results[i].id
                regs == RemoveAgent(agents, f)
                m == MergeResponses(regs, Reindex(regs),
                                    ResponsesWithout(h.results, f),
                                    h.pre_bb, h.pre_final)
            IN /\ h.post_bb = m.bb
               /\ [h.post_final EXCEPT
                      !.insights = SelectSeq(@, LAMBDA x :
                                       ~(x.agent_id = f /\ x.type = "error"))]
                  = m.final

\* C6: after a turn whose Phase 1 emitted events, every registered agent that
\* subscribes to one of them, passes the allow-list, has its
\* trigger_conditions true on the Blackboard after Phase 1 and did not run in
\* Phase 1 has had its evaluate invoked in Phase 2, whatever its
\* trigger_types are.
C6_SubscribersRunInPhase2 ==
    (TurnDone /\ hist # <<>>) =>
        LET names == EventNamesOf(hist[1].events)
        IN \A i \in 1..Len(agents) :
              (/\ IsSubscriber(agents[i], names)
               /\ InAllowList(agents[i], allowed)
               /\ Evaluate(agents[i].trigger_conditions, hist[1].emit_bb,
                           Meta(turn_count, trigger_type, 2), agents[i].id)
               /\ <<1, agents[i].id>> \notin evaluated)
              => <<2, agents[i].id>> \in evaluated

\* C7: a turn has at most two phases: after the Phase-2 merge no phase runs
\* and no evaluate is invoked, and the events emitted in Phase 2 are in the
\* events of the turn's response after those of Phase 1.
C7_Phase2EventsNotDispatched ==
    /\ Len(hist) <= 2
    /\ Len(hist) = 2 => pc # "phase"
    /\ \A e \in evaluated : e[1] \in {1, 2}
    /\ (TurnDone /\ Len(hist) = 2) =>
          last_response.events = hist[1].events \o hist[2].events

\* a finished turn whose Phase 2 emitted an event that a registered agent
\* subscribes to, that agent being in the allow-list with true conditions
C7_Witness ==
    /\ TurnDone
    /\ Len(hist) = 2
    /\ \E i \in 1..Len(agents) :
          /\ IsSubscriber(agents[i], EventNamesOf(hist[2].events))
          /\ IsEligibleForPhase2(agents[i], bb, allowed,
                                 Meta(turn_count, trigger_type, 2))

\* C8: after a turn with trigger type force, every registered agent that
\* passes the allow-list has had its evaluate invoked in Phase 1.
C8_ForceRunsEveryAllowedAgent ==
    (TurnDone /\ trigger_type = "force") =>
        \A i \in 1..Len(agents) :
            InAllowList(agents[i], allowed) => <<1, agents[i].id>> \in evaluated

\* C9: with a non-null allow-list, every evaluate of the turn, in either
\* phase and under every trigger type, is of an agent in the list.
C9_AllowListIsHard ==
    ~allowed.none => \A e \in evaluated : e[2] \in allowed.ids

\* a finished turn with an allow-list in which an agent outside the list
\* subscribes to an event of Phase 1, accepts the turn's trigger type and has
\* true conditions
C9_Witness ==
    /\ TurnDone
    /\ ~allowed.none
    /\ hist # <<>>
    /\ \E i \in 1..Len(agents) :
          /\ agents[i].id \notin allowed.ids
          /\ IsSubscriber(agents[i], EventNamesOf(hist[1].events))
          /\ trigger_type \in agents[i].trigger_types
          /\ Evaluate(agents[i].trigger_conditions, hist[1].emit_bb,
                      Meta(turn_count, trigger_type, 2), agents[i].id)

\* C10: between the turns of a session, that is when a process_turn starts
\* and when it has ended (returned, or raised to the host, which may then
\* start the next one), the live Blackboard holds no event.
C10_EventsEmptyBetweenTurns ==
    pc \in {"idle", "raised"} => bb.events = <<>>

\* a second turn has returned in which both Phase 1 and Phase 2 emitted events
C10_Witness ==
    /\ TurnDone
    /\ turn_count >= 2
    /\ Len(hist) = 2
    /\ hist[1].events # <<>>
    /\ hist[2].events # <<>>

\* C11: after any sequence of add_fact calls on an initially empty
\* Blackboard, two distinct stored facts that both have no key differ in
\* type, and two that both have a key and the same type differ in key.
C11_FactsAreUnique ==
    \A i, j \in 1..Len(bb.facts) :
        i # j =>
            /\ (bb.facts[i].key = NoKey /\ bb.facts[j].key = NoKey)
                   => bb.facts[i].type # bb.facts[j].type
            /\ (/\ bb.facts[i].key # NoKey /\ bb.facts[j].key # NoKey
                /\ bb.facts[i].type = bb.facts[j].type)
                   => bb.facts[i].key # bb.facts[j].key

\* the stored facts that add_fact(f) may replace: those of f's type when f
\* has no key, those of f's type and key otherwise
Candidates(facts, f) ==
    {i \in 1..Len(facts) :
        /\ facts[i].type = f.type
        /\ (f.key # NoKey => facts[i].key = f.key)}

\* the candidate of f: the one stored first
Candidate(facts, f) ==
    CHOOSE i \in Candidates(facts, f) : \A j \in Candidates(facts, f) : i <= j

\* facts without its c-th element, in the same order
Without(facts, c) ==
    [i \in 1..(Len(facts) - 1) |-> IF i < c THEN facts[i] ELSE facts[i + 1]]

\* C13: add_fact(F) with a candidate C (the first stored fact of F's type
\* when F has no key, of F's type and key otherwise) replaces C by F when
\* F.confidence >= C.confidence and leaves the facts unchanged otherwise;
\* with no candidate it appends F; the facts grow by at most one.
C13_AddFactReplacesOrAppends ==
    \A f \in scope.facts :
        LET before == bb.facts
            after == add_fact(bb, f).facts
        IN /\ Len(after) <= Len(before) + 1
           /\ IF Candidates(before, f) = {}
              THEN after = before \o <<f>>
              ELSE LET c == Candidate(before, f)
                   IN IF f.confidence >= before[c].confidence
                      THEN after = Without(before, c) \o <<f>>
                      ELSE after = before

\* the Blackboard holds facts, and among the facts the host may add next one
\* replaces its candidate on an equal confidence, one is refused by its
\* candidate and one has no candidate
C13_Witness ==
    /\ Len(bb.facts) >= 2
    /\ \E f \in scope.facts :
          /\ Candidates(bb.facts, f) # {}
          /\ f.confidence = bb.facts[Candidate(bb.facts, f)].confidence
          /\ Candidate(bb.facts, f) # Len(bb.facts)
    /\ \E f \in scope.facts :
          /\ Candidates(bb.facts, f) # {}
          /\ f.confidence < bb.facts[Candidate(bb.facts, f)].confidence
    /\ \E f \in scope.facts : Candidates(bb.facts, f) = {}

\* C12: after any sequence of add_fact calls and turn merges, no two stored
\* facts that have a key share their type and key.
C12_KeyedFactsAreUnique ==
    \A i, j \in 1..Len(bb.facts) :
        (/\ i # j
         /\ bb.facts[i].key # NoKey
         /\ bb.facts[i].type = bb.facts[j].type)
            => bb.facts[i].key # bb.facts[j].key

\* a turn has merged an agent's fact with a key onto a Blackboard where the
\* host had stored a fact of that type and key, and the host has added a
\* fact since
C12_Witness ==
    /\ TurnDone
    /\ Len(hist) = 1
    /\ \E i \in 1..Len(hist[1].pre_bb.facts) :
          /\ hist[1].pre_bb.facts[i].key # NoKey
          /\ hist[1].pre_bb.facts[i].source_agent = NoAgent
          /\ \E j \in 1..Len(hist[1].post_bb.facts) :
                /\ hist[1].post_bb.facts[j].key = hist[1].pre_bb.facts[i].key
                /\ hist[1].post_bb.facts[j].source_agent \in RegisteredIds
    /\ bb.facts # hist[1].post_bb.facts

\* the successful results of merge h that carry a fact of this type and key
FactWriters(h, type, key) ==
    {i \in OkResults(h) :
        \E n \in 1..Len(h.results[i].resp.facts) :
            /\ h.results[i].resp.facts[n].type = type
            /\ h.results[i].resp.facts[n].key = key}

\* C14: when two agents of distinct priorities both succeed in a phase and
\* each emits a fact with the same type and key, the fact of that type and
\* key stored after the merge is the one of the agent with the larger
\* priority, whatever the confidences.
C14_HigherPriorityFactWins ==
    \A n \in 1..Len(hist) :
        LET h == hist[n]
            W == FactWriters(h, "t", FactKeys[1])
        IN (/\ Cardinality(W) = 2
            /\ \A x, y \in W : x # y => PriorityOf(h, x) # PriorityOf(h, y))
           => LET top == CHOOSE x \in W :
                             \A y \in W : PriorityOf(h, y) <= PriorityOf(h, x)
              IN \A i \in 1..Len(h.post_bb.facts) :
                    (/\ h.post_bb.facts[i].type = "t"
                     /\ h.post_bb.facts[i].key = FactKeys[1])
                       => h.post_bb.facts[i].source_agent = h.results[top].id

\* the cooldown the turn's override gives an agent: max(5, cooldown + m)
\* under an override with cooldown_modifier m, the base cooldown otherwise
EffectiveCooldown(cfg, overrides) ==
    IF cfg.id \in DOMAIN overrides
    THEN IF cfg.cooldown + overrides[cfg.id] > 5
         THEN cfg.cooldown + overrides[cfg.id] ELSE 5
    ELSE cfg.cooldown

\* C15: under a non-force trigger an agent whose trigger type matches is
\* evaluated if and only if at least its effective cooldown has passed
\* since its last run, where the effective cooldown is max(5, cooldown + m)
\* under an override with cooldown_modifier m and the base cooldown without
\* a matching override.
C15_EffectiveCooldown ==
    [][\A id \in Ids :
          (/\ pc = "phase"
           /\ status[id] = "pending"
           /\ status'[id] # "pending"
           /\ trigger_type # "force"
           /\ trigger_type \in ConfigOf(id).trigger_types)
             => ((status'[id] = "running")
                   <=> (now - last_run_time[id]
                           >= EffectiveCooldown(ConfigOf(id), scope.overrides)))]_vars

\* C16 as stated: two consecutive evaluations of the same agent are at
\* least its cooldown apart.
C16_ConsecutiveEvaluationsApart ==
    \A id \in RegisteredIds :
        \A k \in 2..Len(runs[id]) :
            runs[id][k].at - runs[id][k - 1].at >= ConfigOf(id).cooldown

\* C16 as amended: under a non-force trigger an agent whose last run that
\* returned began less than its cooldown ago does not have evaluate invoked
\* and contributes nothing; two consecutive evaluations of the same agent,
\* the earlier of which returned, are at least its cooldown apart.
C16_CooldownAfterReturnedRun ==
    \A id \in RegisteredIds :
        /\ (trigger_type # "force" /\ status[id] = "running")
              => start_time[id] - last_run_time[id] >= ConfigOf(id).cooldown
        /\ (/\ trigger_type # "force" /\ pc = "phase"
            /\ status[id] = "done" /\ <<phase, id>> \notin evaluated)
              => results[id] = NoResult
        /\ \A k \in 2..Len(runs[id]) :
              runs[id][k - 1].end = "returned"
                 => runs[id][k].at - runs[id][k - 1].at >= ConfigOf(id).cooldown

\* an agent that was evaluated twice a cooldown apart, and returned, is
\* selected for Phase 2 of the same turn and blocked by its cooldown
C16_Witness ==
    \E id \in RegisteredIds :
        /\ pc = "phase" /\ phase = 2
        /\ status[id] = "done"
        /\ <<2, id>> \notin evaluated
        /\ Len(runs[id]) = 2
        /\ runs[id][1].end = "returned"
        /\ runs[id][2].end = "returned"
        /\ now - last_run_time[id] < ConfigOf(id).cooldown

\* C17: process_turn never propagates an exception to the host, whatever
\* the agents do and however their trigger_conditions are formed: every
\* turn ends by returning the aggregate response.
C17_ProcessTurnNeverRaises ==
    pc # "raised"

\* C18: evaluate never raises: for every condition expression, rule,
\* operator, Blackboard and meta it returns a boolean, and a rule whose
\* comparison fails inside (an ordering of a string against a number, a
\* mod by zero, a rule that is not a map) evaluates to false.
C18_EvaluateNeverRaises ==
    evaluation # NoEvaluation =>
        /\ evaluation.outcome \in {"true", "false"}
        /\ LET c == evaluation.conditions
           IN ("rules" \in DOMAIN c /\ Len(c.rules) = 1) =>
                LET rule == c.rules[1]
                IN (\/ rule = RuleNotAMap
                    \/ rule = Rule("meta", "turn_count", "mod", IntV(0))
                    \/ /\ get_var(bb, "v").t = "str"
                       /\ \E op \in {"gt", "gte", "lt", "lte"} :
                             rule = Rule("var", "v", op, IntV(3)))
                   => evaluation.outcome = "false"

\* the first rule of the conditions has an operator _compare does not know
FirstRuleUnknown(c) ==
    /\ "rules" \in DOMAIN c
    /\ c.rules # <<>>
    /\ "op" \in DOMAIN c.rules[1]
    /\ c.rules[1].op \notin KnownOps

\* C19: a rule whose op is not a known operator evaluates to true for every
\* actual value, expected value and source, so under mode "all" it never
\* blocks: the conditions pass exactly when their other rules pass.
C19_UnknownOperatorPasses ==
    (/\ evaluation # NoEvaluation
     /\ FirstRuleUnknown(evaluation.conditions)
     /\ evaluation.conditions.mode = "all")
       => LET c == evaluation.conditions
          IN /\ EvaluateRule(c.rules[1], bb, FirstMeta, AgentIds[1])
             /\ Len(c.rules) = 1 => evaluation.outcome = "true"
             /\ Len(c.rules) = 2 =>
                   evaluation.outcome =
                      (IF EvaluateRule(c.rules[2], bb, FirstMeta, AgentIds[1])
                       THEN "true" ELSE "false")

\* on a Blackboard with a string variable, a fact, a queue and a memory
\* entry, conditions of a rule of unknown operator and an ordering of the
\* string against a number were evaluated: the ordering alone decided
C19_Witness ==
    /\ get_var(bb, "v") = StrV("x")
    /\ bb.facts # <<>>
    /\ "q" \in DOMAIN bb.queues
    /\ "m" \in DOMAIN get_memory(bb, AgentIds[1])
    /\ FirstRuleUnknown(evaluation.conditions)
    /\ Len(evaluation.conditions.rules) = 2
    /\ evaluation.conditions.rules[2] = Rule("var", "v", "gt", IntV(3))
    /\ evaluation.outcome = "false"

\* Blackboard b changed only by the three sys stamps of the running turn
Stamped(b) ==
    [b EXCEPT !.variables =
        [k \in (DOMAIN @) \cup {"sys.turn_count", "sys.session_id",
                                "sys.trigger_type"} |->
            CASE k = "sys.turn_count" -> IntV(turn_count)
              [] k = "sys.session_id" -> StrV(SessionId)
              [] k = "sys.trigger_type" -> StrV(trigger_type)
              [] OTHER -> @[k]]]

C21_Phase2SeesPostPhase1Blackboard ==
    \A o \in ObservationsIn(2) :
        /\ hist # <<>>
        /\ LET h == hist[1]
               ok == SelectOk(h.results)
               m == MergeResponses(agents, agent_index, ok, h.pre_bb, h.pre_final)
           IN /\ o.bb = EmitAll(m.bb, EventsOf(ok))
              /\ \A i \in 1..Len(ok) :
                    /\ \A j \in 1..Len(ok[i].events) :
                          InSeq(ok[i].events[j], o.bb.events)
                    /\ \A q \in DOMAIN ok[i].queue_pushes :
                          \A j \in 1..Len(ok[i].queue_pushes[q]) :
                             InSeq(ok[i].queue_pushes[q][j],
                                   DictGet(o.bb.queues, q, <<>>))
                    /\ \A k \in DOMAIN ok[i].variable_updates :
                          k \in DOMAIN o.bb.variables
                    /\ ok[i].facts # <<>> => o.bb.facts # <<>>
                    /\ ok[i].memory_updates # EmptyMap => o.bb.memory # EmptyMap

\* an evaluate of Phase 2 has begun after a Phase 1 in which one agent
\* raised and another returned writes to every container and an event
C21_Witness ==
    /\ ObservationsIn(2) # {}
    /\ hist # <<>>
    /\ FailedResults(hist[1]) # {}
    /\ \E i \in OkResults(hist[1]) :
          /\ hist[1].results[i].resp.variable_updates # EmptyMap
          /\ hist[1].results[i].resp.memory_updates # EmptyMap
          /\ hist[1].results[i].resp.events # <<>>

\* the responses of the results that are not None, in task order
RECURSIVE Responded(_)
Responded(rs) ==
    IF rs = <<>> THEN <<>>
    ELSE (IF Head(rs).kind # "none" THEN <<Head(rs).resp>> ELSE <<>>)
         \o Responded(Tail(rs))

\* C22: the Blackboard and the aggregate response after a merge are a
\* function of the Blackboard before it, the registry and what each task
\* returned, whatever the order in which the tasks completed; so are the
\* Blackboard and the response after the turn.
C22_CompletionOrderIrrelevant ==
    /\ \A k \in 1..Len(hist) :
          LET h == hist[k]
              m == MergeResponses(agents, agent_index, Responded(h.results),
                                  h.pre_bb, h.pre_final)
          IN /\ h.post_bb = m.bb
             /\ h.post_final = m.final
    /\ (TurnDone /\ Len(hist) = 1) =>
          LET h == hist[1]
              m == MergeResponses(agents, agent_index, Responded(h.results),
                                  h.pre_bb, h.pre_final)
          IN /\ bb = m.bb
             /\ WithoutInsights(last_response)
                   = [WithoutInsights(m.final) EXCEPT
                         !.state_updates = m.final.variable_updates]
             /\ last_response.insights = m.final.insights

\* a turn has returned in which the task created last completed first and
\* both tasks returned a write of "v" that the merge orders by task order
\* alone
C22_Witness ==
    /\ TurnDone
    /\ Len(hist) = 1
    /\ Len(hist[1].order) = 2
    /\ hist[1].order[1] = hist[1].results[2].id
    /\ \A i \in 1..2 :
          /\ hist[1].results[i].kind = "ok"
          /\ hist[1].results[i].resp.insights = <<>>
          /\ hist[1].results[i].resp.variable_updates # EmptyMap

\* C23: a snapshot and the Blackboard it was taken from share no object:
\* after snapshot(), each of the two holds what the calls made on it alone
\* give, whatever set_var, push, add_fact, emit_event or memory calls are
\* made on the other, the calls that change a queue list or a memory map
\* in place included.
C23_SnapshotIndependent ==
    heap.taken =>
        /\ BlackboardAt(heap.cells, heap.snap) = phase_snapshot
        /\ BlackboardAt(heap.cells, heap.orig) = bb
        /\ ObjectsOf(heap.cells, heap.snap) \cap ObjectsOf(heap.cells, heap.orig)
               = {}

\* after a snapshot of a Blackboard that had a queue and a memory map, the
\* queue of the original has grown in place, the memory map of the
\* snapshot has got an entry in place, and the snapshot alone has got a
\* variable
C23_Witness ==
    /\ heap.taken
    /\ "q" \in DOMAIN phase_snapshot.queues
    /\ "q" \in DOMAIN bb.queues
    /\ Len(bb.queues["q"]) > Len(phase_snapshot.queues["q"])
    /\ AgentIds[1] \in DOMAIN bb.memory
    /\ AgentIds[1] \in DOMAIN phase_snapshot.memory
    /\ DOMAIN bb.memory[AgentIds[1]] = {"m"}
    /\ DOMAIN phase_snapshot.memory[AgentIds[1]] = {"m", "n"}
    /\ "v" \notin DOMAIN bb.variables
    /\ "v" \in DOMAIN phase_snapshot.variables
    /\ bb.events # phase_snapshot.events

\* C24: for every Blackboard bb reached through the Blackboard operations,
\* from_dict(to_dict(bb)) is bb: the same events in order, variables,
\* queues with their items in order, facts in order and memory.
C24_RoundTrip ==
    LET back == from_dict(to_dict(bb))
    IN /\ back.events = bb.events
       /\ back.variables = bb.variables
       /\ back.queues = bb.queues
       /\ back.facts = bb.facts
       /\ back.memory = bb.memory
       /\ back = bb

\* a Blackboard with two events, a variable that is None, a queue of two
\* items, a fact with a key after a fact without, and a memory map
C24_Witness ==
    /\ Len(bb.events) = 2
    /\ bb.events[1] # bb.events[2]
    /\ get_var(bb, "v") = NoneV
    /\ "v" \in DOMAIN bb.variables
    /\ "q" \in DOMAIN bb.queues
    /\ Len(bb.queues["q"]) = 2
    /\ Len(bb.facts) = 2
    /\ bb.facts[1].key = NoKey
    /\ bb.facts[2].key # NoKey
    /\ AgentIds[1] \in DOMAIN bb.memory

\* the merges of the turn in which the evaluate of agent id raised
RaisesOf(id) ==
    {k \in 1..Len(hist) : \E i \in FailedResults(hist[k]) :
                              hist[k].results[i].id = id}

\* C25 (as stated): when an agent's evaluate raises in a turn, each observer
\* receives on_agent_error for that agent exactly once in that turn, and none
\* for the agents whose evaluate did not raise.
C25_ErrorNotifiedOncePerTurn ==
    TurnDone =>
        \A o \in Observers : \A id \in RegisteredIds :
            on_agent_error[o][id] = IF Raised(id) THEN 1 ELSE 0

\* C25 (amended): each observer receives on_agent_error for an agent once for
\* every phase of the turn in which that agent's evaluate raised, hence at
\* most once per phase, and none for the agents whose evaluate did not raise.
C25_ErrorNotifiedOncePerRaise ==
    TurnDone =>
        \A o \in Observers : \A id \in RegisteredIds :
            /\ on_agent_error[o][id] = Cardinality(RaisesOf(id))
            /\ on_agent_error[o][id] <= max_phases
            /\ ~Raised(id) => on_agent_error[o][id] = 0

\* a turn is over in which one agent raised in Phase 1 and again in Phase 2
\* and another agent returned
C25_Witness ==
    /\ TurnDone
    /\ \E i, k \in RegisteredIds :
        /\ Cardinality(RaisesOf(i)) = 2
        /\ Returned(k) /\ ~Raised(k)
        /\ \A o \in Observers :
            /\ on_agent_error[o][i] = 2
            /\ on_agent_error[o][k] = 0

\* Blackboard b holds the sys.* variables of the running turn
SysStamped(b) ==
    /\ {"sys.turn_count", "sys.session_id", "sys.trigger_type"}
           \subseteq DOMAIN b.variables
    /\ b.variables["sys.turn_count"] = IntV(turn_count)
    /\ b.variables["sys.session_id"] = StrV(SessionId)
    /\ b.variables["sys.trigger_type"] = StrV(trigger_type)

\* C26: in every turn, before any evaluate is invoked, blackboard.variables
\* holds sys.turn_count, sys.session_id and sys.trigger_type of the turn, and
\* every agent of Phase 1 observes these values, even if an agent overwrote a
\* sys.* variable in an earlier turn.
C26_SysVariablesStamped ==
    /\ (pc = "phase" /\ phase = 1) => SysStamped(bb)
    /\ \A id \in RegisteredIds : \A k \in 1..Len(observed[id]) :
           observed[id][k].phase = 1 => SysStamped(observed[id][k].bb)

\* the second turn began on a Blackboard whose three sys.* variables an agent
\* had overwritten in the first turn, and the agent is being evaluated again
C26_Witness ==
    /\ turn_count = 2
    /\ pc = "phase" /\ phase = 1
    /\ \A k \in {"sys.turn_count", "sys.session_id", "sys.trigger_type"} :
           DictGet(turn_bb.variables, k, NoneV) = StrV("bad")
    /\ \E id \in RegisteredIds :
           /\ observed[id] # <<>>
           /\ SysStamped(observed[id][1].bb)

\* result r of a merge is a v1 response: state_updates without variable_updates
IsLegacy(r) ==
    /\ r.kind = "ok"
    /\ r.resp.state_updates # EmptyMap
    /\ r.resp.variable_updates = EmptyMap

\* entry k of state_updates su is the memory of an agent, given as a map
IsMemoryEntry(su, k) == k \in DOMAIN LegacyMemoryKeys /\ su[k].t = "dict"

\* C27: when a successful response has empty variable_updates and non-empty
\* state_updates, every entry (k, v) of state_updates is applied as the
\* variable write variables[k] = v, except that an entry whose key is
\* memory_<agent_id> and whose value is a map is applied as
\* memory[agent_id].update(v) and is not written to the variables; when
\* variable_updates is non-empty, state_updates is not applied.
C27_LegacyStateUpdates ==
    \A n \in 1..Len(hist) :
        LET h == hist[n]
            r == h.results[1]
            su == r.resp.state_updates
        IN (Len(h.results) = 1 /\ r.kind = "ok") =>
             IF IsLegacy(r)
             THEN \A k \in DOMAIN su :
                     IF IsMemoryEntry(su, k)
                     THEN /\ LegacyMemoryKeys[k] \in DOMAIN h.post_bb.memory
                          /\ h.post_bb.memory[LegacyMemoryKeys[k]] =
                                 DictUpdate(DictGet(h.pre_bb.memory,
                                                    LegacyMemoryKeys[k],
                                                    EmptyMap), su[k].d)
                          /\ DictGet(h.post_bb.variables, k, NoneV) =
                                 DictGet(h.pre_bb.variables, k, NoneV)
                     ELSE /\ k \in DOMAIN h.post_bb.variables
                          /\ h.post_bb.variables[k] = su[k]
             ELSE /\ h.post_bb.variables =
                         DictUpdate(h.pre_bb.variables, r.resp.variable_updates)
                  /\ h.post_bb.memory = h.pre_bb.memory

\* C28: the agent_config_overrides map set on the turn's context is visible
\* unchanged in the context passed to every agent's evaluate, in Phase 1 and
\* in Phase 2.
C28_OverridesReachEvaluate ==
    \A id \in RegisteredIds : \A k \in 1..Len(observed[id]) :
        observed[id][k].agent_config_overrides = scope.overrides

\* the agents whose evaluate returned memory_updates to merge h
MemoryWriters(h) ==
    {i \in OkResults(h) : h.results[i].resp.memory_updates # EmptyMap}

\* C29: merging a successful response's memory_updates changes only
\* blackboard.memory[id of the agent that produced the response]: no other
\* namespace and no other key of memory is created or changed, whether or
\* not the response carries insights.
C29_MemoryOnlyOfProducer ==
    \A n \in 1..Len(hist) :
        LET h == hist[n]
            pre == h.pre_bb.memory
            post == h.post_bb.memory
        IN /\ \A a \in DOMAIN post :
                  (a \notin DOMAIN pre \/ pre[a] # post[a]) =>
                      \E i \in MemoryWriters(h) : h.results[i].id = a
           /\ \A i \in MemoryWriters(h) :
                  /\ h.results[i].id \in DOMAIN post
                  /\ post[h.results[i].id] =
                         DictUpdate(DictGet(pre, h.results[i].id, EmptyMap),
                                    h.results[i].resp.memory_updates)

\* C30: each agent of a phase receives a snapshot that shares no mutable
\* state with the other agents of the phase: a mutation that one agent makes
\* to the Blackboard in its context is not visible to any other agent of the
\* same phase.
C30_AgentsShareNoSnapshot ==
    \A id \in RegisteredIds : \A k \in 1..Len(observed[id]) :
        \A other \in RegisteredIds \ {id} :
            get_var(observed[id][k].bb, "w") # StrV(other)

\* C31: the merge is a barrier. No update of an agent of a phase is written to
\* the live Blackboard until every selected agent of the phase has completed,
\* and the live Blackboard is not modified between the snapshot of the phase
\* and the start of its merge, which is its only writer.
C31_MergeIsBarrier ==
    /\ [](pc = "phase" => snapshot(bb) = phase_snapshot)
    /\ [][pc = "phase" =>
             /\ bb' # bb => /\ \A id \in SeqIds(selected) : status[id] = "done"
                            /\ Len(hist') = Len(hist) + 1
                            /\ hist'[Len(hist')].pre_bb = bb
                            /\ hist'[Len(hist')].emit_bb = bb'
             /\ (\E id \in SeqIds(selected) : status[id] # "done") =>
                    /\ bb' = bb
                    /\ final_response' = final_response]_vars

\* a phase is running in which one agent has returned writes and an event
\* while another is still being evaluated, and the live Blackboard has none
\* of the writes
C31_Witness ==
    /\ pc = "phase"
    /\ \E i, j \in SeqIds(selected) :
          /\ status[i] = "done"
          /\ results[i].kind = "ok"
          /\ results[i].resp.variable_updates # EmptyMap
          /\ results[i].resp.events # <<>>
          /\ status[j] = "running"
    /\ "v" \notin DOMAIN bb.variables
    /\ bb.queues = EmptyMap /\ bb.events = <<>>

\* what n calls of pop_queue(name) return, in the order of the calls
RECURSIVE PopAll(_, _, _)
PopAll(b, name, n) ==
    IF n = 0 THEN <<>>
    ELSE <<pop_queue(b, name).item>> \o PopAll(pop_queue(b, name).bb, name, n - 1)

\* result i of merge h comes before result j in merge order: priority
\* ascending, then registration index ascending
MergesBefore(h, i, j) ==
    \/ PriorityOf(h, i) < PriorityOf(h, j)
    \/ PriorityOf(h, i) = PriorityOf(h, j) /\ IndexOf(h, i) <= IndexOf(h, j)

\* the items that the results S of merge h push to queue q, in merge order
RECURSIVE PushedInMergeOrder(_, _, _)
PushedInMergeOrder(h, S, q) ==
    IF S = {} THEN <<>>
    ELSE LET i == CHOOSE i \in S : \A j \in S : MergesBefore(h, i, j)
         IN DictGet(h.results[i].resp.queue_pushes, q, <<>>)
            \o PushedInMergeOrder(h, S \ {i}, q)

\* C32: when several successful agents of a phase push to the same queue, the
\* items are appended after the queue's existing items in merge order
\* (priority ascending, then registration index ascending), each agent's
\* items in their own order and contiguous, and pop_queue returns them in
\* exactly that order.
C32_QueueInMergeOrder ==
    \A n \in 1..Len(hist) :
        LET h == hist[n]
        IN \A q \in DOMAIN h.post_bb.queues :
              LET post == h.post_bb.queues[q]
              IN /\ post = DictGet(h.pre_bb.queues, q, <<>>)
                           \o PushedInMergeOrder(h, OkResults(h), q)
                 /\ PopAll(h.post_bb, q, Len(post)) = post

\* the evaluate of agent id ends in this step, by returning or by raising
EvaluateEnds(id) == status[id] = "running" /\ status'[id] = "done"

\* C35: an agent's last_run_time changes only when its evaluate returns
\* without raising, and is then set to the time at which the invocation
\* began, also under a force trigger; when the agent is not selected, is
\* blocked by trigger type or cooldown, or its evaluate raises, last_run_time
\* is unchanged.
C35_LastRunTimeOnReturn ==
    [][\A id \in Ids :
          IF EvaluateEnds(id) /\ results'[id].kind # "error"
          THEN last_run_time'[id] = start_time[id]
          ELSE last_run_time'[id] = last_run_time[id]]_vars

\* under a force trigger an evaluate has returned after the clock moved: the
\* recorded time is the time of its start; the turn before, the evaluate of
\* the same agent raised and left no record
C35_Witness ==
    /\ trigger_type = "force"
    /\ turn_count = 2
    /\ \E id \in RegisteredIds :
          /\ status[id] = "done"
          /\ Len(runs[id]) = 2
          /\ runs[id][1].end = "raised"
          /\ runs[id][2].end = "returned"
          /\ last_run_time[id] = runs[id][2].at
          /\ now > last_run_time[id]

\* C36: when process_turn returns, for every key k of
\* response.variable_updates the live Blackboard holds
\* variables[k] = response.variable_updates[k] = response.state_updates[k],
\* across the writes of both phases and the writes of the legacy
\* state_updates.
C36_AggregateReportsLiveValues ==
    TurnDone =>
        \A k \in DOMAIN last_response.variable_updates :
            /\ k \in DOMAIN bb.variables
            /\ k \in DOMAIN last_response.state_updates
            /\ bb.variables[k] = last_response.variable_updates[k]
            /\ last_response.state_updates[k] = last_response.variable_updates[k]

\* a turn of two phases has returned: Phase 1 wrote v through
\* variable_updates, Phase 2 wrote another value through state_updates
C36_Witness ==
    /\ TurnDone
    /\ Len(hist) = 2
    /\ \E i \in OkResults(hist[1]) :
          "v" \in DOMAIN hist[1].results[i].resp.variable_updates
    /\ \E i \in OkResults(hist[2]) :
          /\ IsLegacy(hist[2].results[i])
          /\ "v" \in DOMAIN hist[2].results[i].resp.state_updates
          /\ hist[2].results[i].resp.state_updates["v"]
                 # hist[1].post_bb.variables["v"]
    /\ "v" \in DOMAIN last_response.variable_updates

\* sequence p is a prefix of sequence q
IsPrefix(p, q) == Len(p) <= Len(q) /\ SubSeq(q, 1, Len(p)) = p

\* C37: process_turn never removes or reorders existing shared state,
\* whatever the agents return: for every queue the pre-turn contents are a
\* prefix of the post-turn contents, and every variable key, every memory
\* namespace and every memory key present before the turn is still present.
C37_SharedStateOnlyGrows ==
    turn_count > 0 =>
        /\ \A q \in DOMAIN turn_bb.queues :
              /\ q \in DOMAIN bb.queues
              /\ IsPrefix(turn_bb.queues[q], bb.queues[q])
        /\ DOMAIN turn_bb.variables \subseteq DOMAIN bb.variables
        /\ \A a \in DOMAIN turn_bb.memory :
              /\ a \in DOMAIN bb.memory
              /\ DOMAIN turn_bb.memory[a] \subseteq DOMAIN bb.memory[a]

\* the second turn has returned: it began with a queue, variables and a
\* memory namespace that the first turn had filled, and both of its phases
\* pushed to the queue and wrote the variable again
C37_Witness ==
    /\ TurnDone
    /\ turn_count = 2
    /\ Len(hist) = 2
    /\ "q" \in DOMAIN turn_bb.queues
    /\ turn_bb.queues["q"] # <<>>
    /\ "v" \in DOMAIN turn_bb.variables
    /\ Cardinality(DOMAIN turn_bb.memory) >= 1
    /\ Len(bb.queues["q"]) >= Len(turn_bb.queues["q"]) + 2
    /\ bb.variables["v"] # turn_bb.variables["v"]

\* C38: an agent whose evaluate returned in Phase 1 and that Phase 2 of the
\* same turn selects, as a subscriber of an event emitted in Phase 1, has
\* evaluate invoked in Phase 2 only if at least its cooldown has passed
\* since its Phase-1 run began.
C38_NoSecondRunWithinCooldown ==
    \A id \in RegisteredIds :
        (/\ <<1, id>> \in evaluated
         /\ <<2, id>> \in evaluated
         /\ runs[id][1].end = "returned")
            => runs[id][2].at - runs[id][1].at >= ConfigOf(id).cooldown

\* Phase 2 of a turn has selected, for the event it emitted, an agent whose
\* evaluate returned in Phase 1 of the turn less than its cooldown ago: its
\* process is over and evaluate was not invoked again
C38_Witness ==
    \E id \in RegisteredIds :
        /\ pc = "phase" /\ phase = 2
        /\ \E i \in 1..Len(selected) : selected[i] = id
        /\ \E k \in 1..Len(all_events) :
              all_events[k].name \in ConfigOf(id).subscribed_events
        /\ <<1, id>> \in evaluated
        /\ <<2, id>> \notin evaluated
        /\ status[id] = "done"
        /\ results[id] = NoResult
        /\ runs[id][Len(runs[id])].end = "returned"
        /\ now - last_run_time[id] < ConfigOf(id).cooldown

\* the Blackboard that the selection of this turn read: the Blackboard
\* process_turn was given, with the sys variables of the turn
SelectionBlackboard ==
    set_var(set_var(set_var(turn_bb, "sys.turn_count", IntV(turn_count)),
                    "sys.session_id", StrV(SessionId)),
            "sys.trigger_type", StrV(trigger_type))

\* the agents Phase 1 of this turn selected
Phase1Selected ==
    IF hist # <<>>
    THEN {hist[1].results[i].id : i \in 1..Len(hist[1].results)}
    ELSE IF pc = "phase" /\ phase = 1 THEN SeqIds(selected) ELSE {}

\* the on_agent_skipped calls of log that are about agent id in this turn
SkippedCalls(log, id) ==
    {i \in 1..Len(log) : /\ log[i].cb = "on_agent_skipped"
                         /\ log[i].turn = turn_count
                         /\ log[i].name = id}

\* the reason the observers are to be given for a rejected agent
ReasonFor(cfg) ==
    IF ~allowed.none /\ cfg.id \notin allowed.ids THEN "not_in_allow_list"
    ELSE IF trigger_type \notin cfg.trigger_types THEN "trigger_type_mismatch"
    ELSE "conditions_not_met"

C39_SkippedBeforeTurnEnd ==
    \A k \in 1..Len(received.turn) :
        (/\ received.turn[k].cb = "on_turn_end"
         /\ received.turn[k].turn = turn_count)
            => /\ \A i \in 1..Len(scheduled) : scheduled[i].turn # turn_count
               /\ \A i \in 1..Len(received.turn) :
                     (/\ received.turn[i].cb = "on_agent_skipped"
                      /\ received.turn[i].turn = turn_count) => i < k

\* the calls of callback cb that the observers received about agent id in
\* phase ph of this turn
AgentCallsOf(id, cb, ph) ==
    {i \in 1..Len(received.agent[id]) :
        /\ received.agent[id][i].cb = cb
        /\ received.agent[id][i].phase = ph}

\* C40: for each invocation of an agent in a phase that reaches evaluate,
\* every observer receives on_agent_start exactly once before evaluate
\* begins and on_agent_finish exactly once after it ends.
C40_StartAndFinishOnce ==
    \A id \in RegisteredIds : \A ph \in 1..2 :
        <<ph, id>> \in evaluated =>
            LET starts == AgentCallsOf(id, "on_agent_start", ph)
                finishes == AgentCallsOf(id, "on_agent_finish", ph)
            IN /\ Cardinality(starts) = 1
               /\ IF pc = "phase" /\ phase = ph /\ status[id] = "running"
                  THEN finishes = {}
                  ELSE /\ Cardinality(finishes) = 1
                       /\ \A i \in starts : \A j \in finishes : i < j

\* one step of the session before observers that do not raise
QuietStep ==
    \/ \E t \in scope.configs :
          RegisterAgent([t EXCEPT !.id = AgentIds[Len(agents) + 1]])
    \/ \E allow \in scope.allows, trig \in scope.triggers :
          ProcessTurnOn(FALSE, allow, trig)
    \/ \E id \in Ids : AgentProcessOn(FALSE, id)
    \/ \E id \in Ids, sh \in scope.shapes :
          EvaluateReturnsOn(FALSE, id, ShapeResponse(id, sh.ins, sh.wr, sh.ev))
    \/ \E id \in Ids : EvaluateRaisesOn(FALSE, id)
    \/ MergePhaseOn(FALSE)
    \/ FinalizeOn(FALSE)
    \/ LoopRuns

\* C34: before observers that raise in every callback, every step of a turn
\* is the step the same turn takes before observers that do not raise: the
\* agents selected and evaluated, each task's result, the Blackboard, the
\* aggregate response and the return of process_turn are the same.
C34_ObserverExceptionsChangeNothing ==
    [][ObserversRaise => QuietStep]_vars

\* before observers that raise, a turn of two phases has returned its
\* response, events included: the observers were given the start and the
\* end of the turn and of both phases, every agent's start and finish, and
\* the error of an evaluate that raised
C34_Witness ==
    /\ ObserversRaise
    /\ pc = "idle"
    /\ Len(hist) = 2
    /\ last_response.events # <<>>
    /\ last_response = final_response
    /\ \E k \in 1..Len(received.turn) : received.turn[k].cb = "on_turn_end"
    /\ \E k \in 1..Len(received.turn) :
          received.turn[k].cb = "on_phase_end" /\ received.turn[k].phase = 2
    /\ \E id \in RegisteredIds :
          \E k \in 1..Len(received.agent[id]) :
              received.agent[id][k].cb = "on_agent_error"

====
